---- MODULE Spec2Model ----
(***************************************************************************)
(* Authentication and authorization subsystem of CoreSync-IMS-Backend.     *)
(*                                                                         *)
(* The repository holds several generations of the same files.  Each       *)
(* generation is modelled under its own name:                              *)
(*   - the controller generation: src/src/controllers/auth.controller.ts   *)
(*     with the guard authenticate/authorize (error.middleware.ts 140-224) *)
(*   - the rate limited generation: src/unnamed/part_002 (suffix P2), with  *)
(*     the route table auth.route.ts 18-34 and the guard                   *)
(*     authenticateToken of auth.middleware.ts 109-142 (also suffix P2)    *)
(*   - the zod generation: src/unnamed/part_003 164-420 (suffix Z), with    *)
(*     the guard authenticateToken/requireRoles of auth.middleware.ts       *)
(*     1-99 and errorHandler                                               *)
(*   - the first generation: src/unnamed/part_003 1-162 (suffix P3)        *)
(* Time is Date.now() in milliseconds.                                     *)
(***************************************************************************)
EXTENDS Integers, Sequences, FiniteSets, TLC

VARIABLES
    now,          \* Date.now(), milliseconds
    users,        \* table User: set of rows
    userRoles,    \* table UserRole: set of <<userId, roleId>>
    activityLog,  \* table UserActivityLog: sequence of rows, in insertion order
    hits,         \* express-rate-limit MemoryStore of loginLimiter: key -> client
    outbox,       \* mails handed to the transporter: set of [to, token]
    redeemed,     \* history: the reset tokens a resetPassword has accepted
    bearer,       \* the token the caller kept from a login response
    req,          \* the last request handled (its inputs and what it met)
    resp,         \* the response to it
    emailFails,   \* history: failed logins per email, [count, windowStart]
    wrongRun,     \* history: the current run of wrong-password logins per email
    pending       \* the requests a handler is still serving, in order of arrival

vars == <<now, users, userRoles, activityLog, hits, outbox, redeemed, bearer, req, resp,
          emailFails, wrongRun, pending>>

----------------------------------------------------------------------------
(* Characters and strings.  A string the code inspects character by        *)
(* character (email, password) is a sequence of one-character strings.     *)

Lower == {"a", "b", "c", "d", "e", "o", "p", "r", "s", "w", "x"}
Upper == {"A", "B", "P", "X"}
Digit == {"0", "1", "2", "9"}
Space == {" "}

Range(s) == {s[i] : i \in 1..Len(s)}

\* JavaScript String.prototype.toLowerCase on the alphabet above; the MySQL
\* collation utf8mb4_unicode_ci compares User.email this way.
toLower(c) ==
    CASE c = "A" -> "a"
      [] c = "B" -> "b"
      [] c = "P" -> "p"
      [] c = "X" -> "x"
      [] OTHER -> c

Fold(s) == [i \in 1..Len(s) |-> toLower(s[i])]

\* /^[^\s@]+@[^\s@]+\.[^\s@]+$/
isValidEmail(email) ==
    /\ Range(email) \cap Space = {}
    /\ Cardinality({i \in 1..Len(email) : email[i] = "@"}) = 1
    /\ \E i \in 1..Len(email), j \in 1..Len(email) :
          /\ email[i] = "@"
          /\ email[j] = "."
          /\ 1 < i
          /\ i + 1 < j
          /\ j < Len(email)

\* z.string().email(), zod 3:
\* /^(?!\.)(?!.*\.\.)([A-Z0-9_'+\-\.]*)[A-Z0-9_+-]@([A-Z0-9][A-Z0-9\-]*\.)+[A-Z]{2,}$/i
isZodEmail(email) ==
    LET AlNum == Lower \cup Upper \cup Digit
        n     == Len(email)
    IN /\ Cardinality({i \in 1..n : email[i] = "@"}) = 1
       /\ email[1] # "."
       /\ \A i \in 1..(n - 1) : ~(email[i] = "." /\ email[i + 1] = ".")
       /\ \E at \in 2..n, dot \in 1..n :
             /\ email[at] = "@"
             /\ \A i \in 1..(at - 1) : email[i] \in AlNum \cup {"_", "'", "+", "-", "."}
             /\ email[at - 1] \in AlNum \cup {"_", "+", "-"}
             /\ email[dot] = "."
             /\ at + 1 < dot
             /\ dot + 2 <= n
             /\ \A i \in (dot + 1)..n : email[i] \in Lower \cup Upper
             /\ email[at + 1] \in AlNum
             /\ \A i \in (at + 1)..(dot - 1) : email[i] \in AlNum \cup {"-", "."}
             /\ \A i \in (at + 1)..(dot - 1) : email[i] = "." => email[i + 1] \in AlNum

\* /^(?=.*[a-z])(?=.*[A-Z])(?=.*\d)[a-zA-Z\d]{8,}$/
isValidPassword(password) ==
    /\ Range(password) \cap Lower # {}
    /\ Range(password) \cap Upper # {}
    /\ Range(password) \cap Digit # {}
    /\ Range(password) \subseteq (Lower \cup Upper \cup Digit)
    /\ Len(password) >= 8

\* password.length < 8 || !/[A-Za-z]/.test(password) || !/[0-9]/.test(password)
isWeakPassword(password) ==
    \/ Len(password) < 8
    \/ Range(password) \cap (Lower \cup Upper) = {}
    \/ Range(password) \cap Digit = {}

ALICE    == <<"a", "@", "e", ".", "c", "o">>
ALICE_UC == <<"A", "@", "e", ".", "c", "o">>
BOB      == <<"b", "@", "e", ".", "c", "o">>
NOT_MAIL == <<"a", "e", ".", "c", "o">>

Al == <<"A", "l">>

Bo == <<"B", "o">>

Password1 == <<"P", "a", "s", "s", "w", "o", "r", "d", "1">>
Password2 == <<"P", "a", "s", "s", "w", "o", "r", "d", "2">>
password9 == <<"p", "a", "s", "s", "w", "o", "r", "d", "9">>
Weak      == <<"a", "b", "c">>

----------------------------------------------------------------------------
(* bcrypt.  hash draws a random salt; compare recomputes with the salt     *)
(* stored in the digest.                                                   *)

\* the salts of the digests the tables hold
usedSalts ==
    {u.password.salt : u \in users}
    \cup {activityLog[i].details.resetToken.salt :
             i \in {j \in 1..Len(activityLog) :
                       activityLog[j].action = "PASSWORD_RESET_REQUESTED"}}

\* bcrypt.genSalt: 16 random bytes, a value no stored digest carries
Salts == {CHOOSE n \in 1..(Cardinality(usedSalts) + 1) : n \notin usedSalts}

bcrypt_hashUnkeyed(plain, salt) == [salt |-> salt, of |-> <<>>]

bcrypt_hash(plain, salt) == [salt |-> salt, of |-> plain]

bcrypt_compare(plain, digest) == bcrypt_hash(plain, digest.salt) = digest

----------------------------------------------------------------------------
(* jsonwebtoken.  iat and exp are NumericDate values: whole seconds.       *)

JWT_SECRET == "env.JWT_SECRET"
OTHER_SECRET == "not the server's secret"

SecondsOf(ms) == ms \div 1000

HOUR == 3600

jwt_signOtherSecret(payload, secret, expiresIn, t) ==
    [form   |-> "jws",
     claims |-> payload,
     iat    |-> SecondsOf(t),
     exp    |-> SecondsOf(t) + expiresIn,
     sig    |-> <<OTHER_SECRET, payload, SecondsOf(t), SecondsOf(t) + expiresIn>>]

\* jwt.sign(payload, secret, { expiresIn })
jwt_sign(payload, secret, expiresIn, t) ==
    [form   |-> "jws",
     claims |-> payload,
     iat    |-> SecondsOf(t),
     exp    |-> SecondsOf(t) + expiresIn,
     sig    |-> <<secret, payload, SecondsOf(t), SecondsOf(t) + expiresIn>>]

jwt_validUntilPasswordChange(token, secret) ==
    /\ token.sig = <<secret, token.claims, token.iat, token.exp>>
    /\ ~\E i \in DOMAIN activityLog : activityLog[i].action = "PASSWORD_CHANGED"

jwt_signatureValid(token, secret) ==
    token.sig = <<secret, token.claims, token.iat, token.exp>>

jwt_expiredLate(token, t) == SecondsOf(t) > token.exp

\* verify.js: clockTimestamp >= payload.exp
jwt_expired(token, t) == SecondsOf(t) >= token.exp

NoToken == [form |-> "none"]
NotAToken == [form |-> "garbage"]

\* what the caller holds before any login
NotKept == [token |-> NoToken, expiresIn |-> 0, at |-> 0]

\* jwt.verify(token, secret): the decoded payload, or the error thrown
jwt_verify(token, secret, t) ==
    IF token.form # "jws"
    THEN [ok |-> FALSE, name |-> "JsonWebTokenError", message |-> "jwt malformed"]
    ELSE IF ~jwt_signatureValid(token, secret)
    THEN [ok |-> FALSE, name |-> "JsonWebTokenError", message |-> "invalid signature"]
    ELSE IF jwt_expired(token, t)
    THEN [ok |-> FALSE, name |-> "TokenExpiredError", message |-> "jwt expired"]
    ELSE [ok |-> TRUE, payload |-> token.claims, iat |-> token.iat, exp |-> token.exp]

----------------------------------------------------------------------------
(* The Directory: the tables the handlers query through prisma.            *)

NoUser == [id |-> 0]

\* prisma.user.findUnique({ where: { email } })
findUserByEmail(email) ==
    IF \E u \in users : Fold(u.email) = Fold(email)
    THEN CHOOSE u \in users : Fold(u.email) = Fold(email)
    ELSE NoUser

\* prisma.user.findUnique({ where: { id } })
findUserById(id) ==
    IF \E u \in users : u.id = id
    THEN CHOOSE u \in users : u.id = id
    ELSE NoUser

\* the unique index User_email_key, and findUnique({ where: { email } }) != null
emailTaken(email) == \E u \in users : Fold(u.email) = Fold(email)

\* @default(autoincrement())
nextUserId == Cardinality(users) + 1

Reply(status, message) == [status |-> status, message |-> message, token |-> NoToken]

\* what a login request meets in the Directory, whatever the handler answers
Credential(email, password) ==
    IF findUserByEmail(email).id = 0 THEN "nouser"
    ELSE IF bcrypt_compare(password, findUserByEmail(email).password) THEN "ok"
    ELSE "wrong"

\* user.roles.map((userRole) => userRole.role.name), in primary key order
RECURSIVE SortedSeq(_)
SortedSeq(S) ==
    IF S = {} THEN <<>>
    ELSE LET m == CHOOSE x \in S : \A y \in S : x <= y
         IN <<m>> \o SortedSeq(S \ {m})

roleIdsOf(userId) == SortedSeq({ur[2] : ur \in {p \in userRoles : p[1] = userId}})

----------------------------------------------------------------------------
(* Tables the seed script fills (src/src/seed.ts) and no handler changes.  *)

roleTable ==
    {[id |-> 1, name |-> "Admin"], [id |-> 2, name |-> "Manager"],
     [id |-> 3, name |-> "Operator"], [id |-> 8, name |-> "User"]}

departmentTable == {[id |-> 1, name |-> "Executive Management"]}

NoDepartment == 0

roleNameOf(roleId) == (CHOOSE r \in roleTable : r.id = roleId).name

\* prisma.role.findMany({ where: { name: { in: names } } })
rolesByName(names) == {r \in roleTable : r.name \in Range(names)}

\* prisma.role.findMany({ where: { id: { in: ids } } })
rolesById(ids) == {r \in roleTable : r.id \in Range(ids)}

\* userRoles.map((ur) => ur.role.name)
roleNamesOf(userId) ==
    [i \in 1..Len(roleIdsOf(userId)) |-> roleNameOf(roleIdsOf(userId)[i])]

----------------------------------------------------------------------------
(* What a response carries of a user.                                      *)

\* tx.user.findUnique({ where: { id: newUser.id }, include }) after the writes
createdUser(id, table) == CHOOSE u \in table : u.id = id

\* include: { userRoles: { include: { role: true } } }, in primary key order
roleRowsOf(userId, table) ==
    LET ids == SortedSeq({ur[2] : ur \in {p \in table : p[1] = userId}})
    IN [i \in 1..Len(ids) |-> CHOOSE r \in roleTable : r.id = ids[i]]

\* { ...user, password: undefined } and { password: _, ...userWithoutPassword }
withoutPassword(row) == [f \in DOMAIN row \ {"password"} |-> row[f]]

\* formattedUser of the controller: the row without its password, with roles
formattedUser(row, table) ==
    withoutPassword(row) @@ [roles |-> roleRowsOf(row.id, table)]

\* formattedUser of the first register of part_003: { ...user, roles }
formattedUser_P3(row, table) == row @@ [roles |-> roleRowsOf(row.id, table)]

\* res.status(...).json({ user, token }) and its variants
Sends(reply, user) ==
    [status |-> reply.status, message |-> reply.message, token |-> reply.token,
     user |-> user]

----------------------------------------------------------------------------
(* The rate limited generation: part_002 behind loginLimiter.              *)

windowMs == 15 * 60 * 1000
max == 5
MaxHits == 6

\* request.ip, as a string of one symbol
IPs == {<<"ip1">>, <<"ip2">>}

\* a key the store does not hold
NoClient == [totalHits |-> 0, resetTime |-> 0]

MemoryStore_incrementNoReset(client, t) ==
    [totalHits |-> client.totalHits + 1,
     resetTime |-> IF client.totalHits = 0 THEN t + windowMs ELSE client.resetTime]

\* an increment that writes back the count it read before the requests now
\* in flight were counted
MemoryStore_incrementStale(client, t) ==
    IF client.resetTime <= t
    THEN [totalHits |-> 1, resetTime |-> t + windowMs]
    ELSE [client EXCEPT !.totalHits =
             @ + 1 - Cardinality({i \in DOMAIN pending : pending[i].state = "running"})]

\* MemoryStore.increment(key): a client whose window has ended starts a new one
MemoryStore_increment(client, t) ==
    IF client.resetTime <= t
    THEN [totalHits |-> 1, resetTime |-> t + windowMs]
    ELSE [client EXCEPT !.totalHits = @ + 1]

\* MemoryStore.decrement(key)
MemoryStore_decrement(client) == [client EXCEPT !.totalHits = @ - 1]

skipSuccessfulRequestsOn == TRUE

\* the option skipSuccessfulRequests, not configured: false
skipSuccessfulRequests == FALSE

overLimitAt(totalHits) == totalHits >= max

\* rateLimit: if (totalHits > limit) handler(...) else next()
overLimit(totalHits) == totalHits > max

keyOfEmail(ip, email) == email

keyOfProxy(ip, email) == <<"ip1">>

\* keyGenerator, not configured: request.ip
keyGenerator(ip, email) == ip

RATE_LIMITED == Reply(429, "Too many login attempts, please try again later")

\* register of part_002: the response and the row created, if any
register_P2_reply(body) ==
    IF ~isValidEmail(body.email)
    THEN Reply(400, "Invalid email format")
    ELSE IF ~isValidPassword(body.password)
    THEN Reply(400, "Password must be at least 8 characters long and contain uppercase, lowercase, and numbers")
    ELSE IF emailTaken(body.email)
    THEN Reply(400, "User already exists")
    ELSE Reply(201, "User registered successfully")

register_P2(body) ==
    /\ resp' = IF register_P2_reply(body).status = 201
               THEN Sends(register_P2_reply(body),
                          [id |-> nextUserId, email |-> body.email])
               ELSE register_P2_reply(body)
    /\ req' = [op |-> "register_P2", email |-> body.email, t |-> now,
               body |-> body,
               existed |-> \E u \in users : Fold(u.email) = Fold(body.email),
               users |-> users, userRoles |-> userRoles]
    /\ \E salt \in Salts :
          users' = IF register_P2_reply(body).status = 201
                   THEN users \cup {[id |-> nextUserId,
                                     firstName |-> body.firstName,
                                     lastName |-> body.lastName,
                                     email |-> body.email,
                                     password |-> bcrypt_hash(body.password, salt),
                                     departmentId |-> body.departmentId]}
                   ELSE users
    /\ UNCHANGED <<now, userRoles, activityLog, hits, outbox, redeemed, bearer, emailFails, wrongRun, pending>>

\* login, part_002 lines 172-212: the response
login_P2_reply(email, password, t) ==
    IF findUserByEmail(email).id = 0
    THEN Reply(400, "Invalid email or password")
    ELSE IF ~bcrypt_compare(password, findUserByEmail(email).password)
    THEN Reply(400, "Invalid email or password")
    ELSE [status |-> 200, message |-> "Login successful",
          token |-> jwt_sign([id |-> findUserByEmail(email).id,
                              email |-> findUserByEmail(email).email,
                              roles |-> roleNamesOf(findUserByEmail(email).id)],
                             JWT_SECRET, HOUR, t)]

\* history: the failed logins (answers 400) of one email since its last
\* successful login, counted inside the window that began with the first of them
NoFails == [count |-> 0, windowStart |-> 0]

failsInWindow(entry, t) ==
    IF entry.count = 0 \/ t - entry.windowStart >= windowMs THEN 0 ELSE entry.count

\* history: the current run of consecutive wrong-password logins of one email,
\* whatever they were answered, inside the window that began with the first
NoRun == [n |-> 0, start |-> 0]

runInWindow(run, t) ==
    IF run.n = 0 \/ t - run.start >= windowMs THEN 0 ELSE run.n

\* router.post('/login', loginLimiter, login)
loginLimited(ip, email, password) ==
    LET key    == keyGenerator(ip, email)
        client == MemoryStore_increment(hits[key], now)
        reply  == IF overLimit(client.totalHits)
                  THEN RATE_LIMITED
                  ELSE login_P2_reply(email, password, now)
        cred   == Credential(email, password)
        fails  == failsInWindow(emailFails[email], now)
        run    == runInWindow(wrongRun[email], now)
    IN /\ client.totalHits <= MaxHits
       /\ hits' = [hits EXCEPT ![key] =
                      IF skipSuccessfulRequests /\ reply.status < 400
                      THEN MemoryStore_decrement(client)
                      ELSE client]
       /\ resp' = reply
       /\ req' = [op |-> "loginLimited", ip |-> ip, email |-> email, t |-> now,
                  cred |-> cred, before |-> hits[ip], failsBefore |-> fails,
                  nthWrong |-> IF cred = "wrong" THEN run + 1 ELSE 0,
                  runStart |-> IF run = 0 THEN now ELSE wrongRun[email].start,
                  ran |-> ~overLimit(client.totalHits),
                  compared |-> ~overLimit(client.totalHits) /\ findUserByEmail(email).id # 0,
                  users |-> users, activityLog |-> activityLog, hits |-> hits]
       /\ emailFails' = [emailFails EXCEPT ![email] =
                            IF reply.status = 400
                            THEN [count |-> fails + 1,
                                  windowStart |-> IF fails = 0 THEN now ELSE @.windowStart]
                            ELSE IF reply.status = 200 THEN NoFails
                            ELSE @]
       /\ wrongRun' = [wrongRun EXCEPT ![email] =
                            IF cred = "wrong"
                            THEN [n |-> run + 1, start |-> IF run = 0 THEN now ELSE @.start]
                            ELSE NoRun]
       /\ UNCHANGED <<now, users, userRoles, activityLog, outbox, redeemed, bearer, pending>>

\* the clock moves on to a later instant of T
Advance(T) ==
    /\ \E t \in T : t > now /\ now' = t
    /\ UNCHANGED <<users, userRoles, activityLog, hits, outbox, redeemed, bearer, req, resp,
                   emailFails, wrongRun, pending>>

Emails == {ALICE, BOB}

Init ==
    /\ now = 0
    /\ users = {}
    /\ userRoles = {}
    /\ activityLog = <<>>
    /\ hits = [k \in IPs \cup Emails |-> NoClient]
    /\ outbox = {}
    /\ redeemed = {}
    /\ bearer = NotKept
    /\ req = [op |-> "none"]
    /\ resp = Reply(0, "")
    /\ emailFails = [e \in Emails |-> NoFails]
    /\ wrongRun = [e \in Emails |-> NoRun]
    /\ pending = <<>>

\* the instants the clock shows: a window's start, its last millisecond, its end
ClockLimiter == {0, windowMs - 1, windowMs}

BodyP2(email, password) ==
    [firstName |-> Al, lastName |-> Bo, email |-> email,
     password |-> password, departmentId |-> 0]

\* the Directory after one POST /register of ALICE with Password1
InitLimiter ==
    /\ now = 0
    /\ users = {[id |-> 1, firstName |-> Al, lastName |-> Bo, email |-> ALICE,
                 password |-> bcrypt_hash(Password1, 1), departmentId |-> 0]}
    /\ userRoles = {}
    /\ activityLog = <<>>
    /\ hits = [k \in IPs \cup Emails |-> NoClient]
    /\ outbox = {}
    /\ redeemed = {}
    /\ bearer = NotKept
    /\ req = [op |-> "register_P2", email |-> ALICE, t |-> 0,
              body |-> BodyP2(ALICE, Password1), existed |-> FALSE,
              users |-> {}, userRoles |-> {}]
    /\ resp = Sends(Reply(201, "User registered successfully"),
                    [id |-> 1, email |-> ALICE])
    /\ emailFails = [e \in Emails |-> NoFails]
    /\ wrongRun = [e \in Emails |-> NoRun]
    /\ pending = <<>>

NextLimiter ==
    \/ \E ip \in IPs, password \in {Password1, Password2} :
          loginLimited(ip, ALICE, password)
    \/ Advance(ClockLimiter)

SpecLimiter == InitLimiter /\ [][NextLimiter]_vars

----------------------------------------------------------------------------
(* Claims about the rate limited generation.                               *)

\* the requests the limiter had counted for the client, in its current window,
\* before the last request
countedBefore == IF req.t < req.before.resetTime THEN req.before.totalHits ELSE 0

\* C1, as claimed: once exactly max failed logins of one email have occurred
\* inside one window, the next login for that email inside the window is
\* answered 429, also with the correct password.
C1_EmailBlockedAfterMaxFailures ==
    (req.op = "loginLimited" /\ req.failsBefore = max) => resp.status = 429

\* C1, amended: the count is per client address and of every login request;
\* a login is answered 429 exactly when the limiter had already counted max
\* requests of that address in its current window, whatever the password.
C1_ClientBlockedAfterMaxRequests ==
    req.op = "loginLimited" => (resp.status = 429 <=> countedBefore >= max)

C1_Witness ==
    /\ req.op = "loginLimited"
    /\ req.cred = "ok"
    /\ countedBefore = max
    /\ resp.status = 429

\* C2, as claimed: after a successful login the identifier has no throttle
\* entry, and a failed login that follows no other failure starts a fresh
\* window with count 1.
C2_SuccessClearsCount ==
    req.op = "loginLimited" =>
        /\ resp.status = 200 => hits[req.ip] = NoClient
        /\ (resp.status = 400 /\ req.failsBefore = 0) =>
              hits[req.ip] = [totalHits |-> 1, resetTime |-> req.t + windowMs]

\* C2, amended: a successful login is counted like every other login request
\* and clears nothing: inside the client's window it leaves the count one
\* higher and the window as it was; a count starts afresh at 1 only with the
\* first request at or after the window's reset time.
C2_SuccessIsCounted ==
    (req.op = "loginLimited" /\ resp.status = 200) =>
        hits[req.ip] = IF req.t < req.before.resetTime
                       THEN [totalHits |-> req.before.totalHits + 1,
                             resetTime |-> req.before.resetTime]
                       ELSE [totalHits |-> 1, resetTime |-> req.t + windowMs]

C2_Witness ==
    /\ req.op = "loginLimited"
    /\ resp.status = 200
    /\ req.failsBefore >= 2
    /\ hits[req.ip].totalHits >= 3

\* the last request was the n-th of a run of wrong-password logins that all
\* came from its client address, which sent no other login in the window
ownRun ==
    /\ req.op = "loginLimited"
    /\ req.cred = "wrong"
    /\ countedBefore = req.nthWrong - 1
    /\ req.nthWrong > 1 => req.before.resetTime = req.runStart + windowMs

\* C3, as claimed: of the wrong-password logins of a run inside the window
\* the first four are answered with the authentication failure and the fifth
\* and later ones with 429; a correct password succeeds once no failure is
\* left in the window.
C3_FifthWrongIsBlocked ==
    req.op = "loginLimited" =>
        /\ (req.cred = "wrong" /\ req.nthWrong <= 4) => resp.status = 400
        /\ (req.cred = "wrong" /\ req.nthWrong >= 5) => resp.status = 429
        /\ (req.cred = "ok" /\ req.failsBefore = 0) => resp.status = 200

\* C3, amended: in a run sent from one client address that sends no other
\* login in the window, the first five are answered 400 and the sixth and
\* later ones 429; a correct-password login of a client whose window has
\* elapsed succeeds with 200 and a token that verifies and names the email.
C3_SixthWrongIsBlocked ==
    /\ (ownRun /\ req.nthWrong <= max) =>
          resp = Reply(400, "Invalid email or password")
    /\ (ownRun /\ req.nthWrong > max) => resp = RATE_LIMITED
    /\ (req.op = "loginLimited" /\ req.cred = "ok" /\ countedBefore = 0) =>
          /\ resp.status = 200
          /\ jwt_verify(resp.token, JWT_SECRET, req.t).ok
          /\ resp.token.claims.email = req.email

C3_Witness ==
    /\ req.op = "loginLimited"
    /\ req.cred = "ok"
    /\ req.t >= req.before.resetTime
    /\ req.before.totalHits > max
    /\ resp.status = 200

MaxLog == 2

LogEntry(userId, action, t, details) ==
    [userId |-> userId, action |-> action, timestamp |-> t, details |-> details]

UserRow(id, body, digest, departmentId) ==
    [id |-> id, firstName |-> body.firstName, lastName |-> body.lastName,
     email |-> body.email, password |-> digest, departmentId |-> departmentId]

----------------------------------------------------------------------------
(* errorHandler (error.middleware.ts 17-138).  An error is [class, message, *)
(* code]; AuthenticationError and AuthorizationError extend Error only.     *)

Err(class, message) == [class |-> class, message |-> message, code |-> ""]

PrismaErr(code) ==
    [class |-> "PrismaClientKnownRequestError", message |-> "", code |-> code]

handlePrismaError(err) ==
    CASE err.code = "P2002" -> Reply(409, "Unique constraint violation")
      [] err.code = "P2003" -> Reply(409, "Foreign key constraint violation")
      [] err.code = "P2014" -> Reply(400, "Invalid ID for relation")
      [] err.code = "P2016" -> Reply(400, "Query interpretation error")
      [] err.code = "P2025" -> Reply(404, "Record not found")
      [] err.code = "P2001" -> Reply(404, "Record search failed")
      [] OTHER -> Reply(500, "Database error")

TIMED_OUT_AS_CONFLICT == PrismaErr("P2002")

\* the Directory does not answer a query in time
TIMED_OUT == PrismaErr("P2024")

errorHandler(err) ==
    CASE err.class = "AppError" -> Reply(err.code, err.message)
      [] err.class = "ZodError" -> Reply(400, "Validation error")
      [] err.class = "PrismaClientKnownRequestError" -> handlePrismaError(err)
      [] err.class = "SyntaxError" -> Reply(400, "Invalid syntax")
      [] err.class = "TypeError" -> Reply(400, "Type error occurred")
      [] err.class = "PayloadTooLargeError" -> Reply(413, "Request payload too large")
      [] OTHER -> Reply(500, "Internal server error")

----------------------------------------------------------------------------
(* The controller generation: auth.controller.ts.                          *)

DAY == 86400

WEAK_MESSAGE ==
    "Password must be at least 8 characters long and include both letters and numbers"

\* register, lines 24-189: the response
register_reply(body, t) ==
    IF body.firstName = <<>> \/ body.lastName = <<>> \/ body.email = <<>> \/ body.password = <<>>
    THEN Reply(400, "Missing required fields: firstName, lastName, email, and password are required")
    ELSE IF ~isValidEmail(body.email)
    THEN Reply(400, "Invalid email format")
    ELSE IF isWeakPassword(body.password)
    THEN Reply(400, WEAK_MESSAGE)
    ELSE IF emailTaken(body.email)
    THEN Reply(409, "User with this email already exists")
    ELSE IF ~body.roles.given
    THEN Reply(400, "At least one role must be selected")
    ELSE IF Len(body.roles.list) = 0
    THEN Reply(400, "At least one role must be selected")
    ELSE IF rolesByName(body.roles.list) = {}
    THEN Reply(400, "Invalid role(s) provided")
    ELSE IF body.department # "" /\ ~\E d \in departmentTable : d.name = body.department
    THEN Reply(400, "Department not found")
    ELSE [status |-> 201, message |-> "",
          token |-> jwt_sign([id |-> nextUserId, email |-> body.email],
                             JWT_SECRET, DAY, t)]

departmentIdOf(name) ==
    IF name = "" THEN NoDepartment
    ELSE (CHOOSE d \in departmentTable : d.name = name).id

register(body) ==
    LET reply == register_reply(body, now)
    IN /\ req' = [op |-> "register", email |-> body.email, t |-> now, body |-> body,
                  existed |-> \E u \in users : Fold(u.email) = Fold(body.email),
                  users |-> users, userRoles |-> userRoles,
                  activityLog |-> activityLog]
       /\ IF reply.status = 201
          THEN \/ /\ Len(activityLog) < MaxLog
                  /\ \E salt \in Salts :
                        users' = users \cup
                            {UserRow(nextUserId, body, bcrypt_hash(body.password, salt),
                                     departmentIdOf(body.department))}
                  /\ userRoles' = userRoles \cup
                        {<<nextUserId, r.id>> : r \in rolesByName(body.roles.list)}
                  /\ activityLog' = Append(activityLog,
                        LogEntry(nextUserId, "USER_CREATED", now,
                                 [departmentId |-> departmentIdOf(body.department),
                                  roles |-> rolesByName(body.roles.list)]))
                  /\ resp' = Sends(reply, formattedUser(createdUser(nextUserId, users'), userRoles'))
               \* a write inside prisma.$transaction throws: it is rolled back
               \/ /\ UNCHANGED <<users, userRoles, activityLog>>
                  /\ resp' = Reply(500, "Failed to register user")
          ELSE /\ UNCHANGED <<users, userRoles, activityLog>>
               /\ resp' = reply
       /\ UNCHANGED <<now, hits, outbox, redeemed, bearer, emailFails, wrongRun, pending>>

\* login, lines 191-257: the response
login_reply(email, password, t) ==
    IF email = <<>> \/ password = <<>>
    THEN Reply(400, "Email and password are required")
    ELSE IF findUserByEmail(email).id = 0
    THEN Reply(404, "User not found")
    ELSE IF ~bcrypt_compare(password, findUserByEmail(email).password)
    THEN Reply(401, "Invalid credentials")
    ELSE [status |-> 200, message |-> "",
          token |-> jwt_sign([id |-> findUserByEmail(email).id,
                              email |-> findUserByEmail(email).email],
                             JWT_SECRET, DAY, t),
          user |-> formattedUser(findUserByEmail(email), userRoles)]

\* login, lines 191-257, while the log holds fewer than maxLog rows
loginWithin(email, password, maxLog) ==
    LET reply == login_reply(email, password, now)
    IN /\ resp' = reply
       /\ req' = [op |-> "login", email |-> email, t |-> now,
                  cred |-> Credential(email, password), password |-> password,
                  payload |-> reply.token, expiresIn |-> DAY]
       /\ IF reply.status = 200
          THEN /\ Len(activityLog) < maxLog
               /\ activityLog' = Append(activityLog,
                     LogEntry(findUserByEmail(email).id, "USER_LOGIN", now,
                              [timestamp |-> now]))
          ELSE UNCHANGED activityLog
       /\ UNCHANGED <<now, users, userRoles, hits, outbox, redeemed, bearer, emailFails, wrongRun, pending>>

login(email, password) == loginWithin(email, password, MaxLog)

----------------------------------------------------------------------------
(* The first generation: part_003 1-162.                                   *)

MANAGEMENT_ROLES == {"Manager", "Department Head", "Team Lead"}

\* tx.user.create / tx.userRole.create: the constraint a create would break
createBreaks(body, roleIds) ==
    \/ emailTaken(body.email)
    \/ body.departmentId # NoDepartment /\ ~\E d \in departmentTable : d.id = body.departmentId
    \/ \E i \in 1..Len(roleIds) : ~\E r \in roleTable : r.id = roleIds[i]
    \/ \E i, j \in 1..Len(roleIds) : i # j /\ roleIds[i] = roleIds[j]

\* register, lines 9-111: the response
register_P3_reply(body, t) ==
    IF ~body.roleIds.given \/ Len(body.roleIds.list) = 0
    THEN Reply(400, "At least one role must be selected")
    ELSE IF /\ \E r \in rolesById(body.roleIds.list) : r.name \in MANAGEMENT_ROLES
            /\ body.departmentId = NoDepartment
    THEN Reply(400, "A department is required for the selected role(s)")
    ELSE IF createBreaks(body, body.roleIds.list)
    THEN Reply(500, "Failed to register user")
    ELSE [status |-> 201, message |-> "",
          token |-> jwt_sign([id |-> nextUserId, email |-> body.email],
                             JWT_SECRET, DAY, t)]

register_P3(body) ==
    LET reply == register_P3_reply(body, now)
    IN /\ req' = [op |-> "register_P3", email |-> body.email, t |-> now, body |-> body,
                  existed |-> \E u \in users : Fold(u.email) = Fold(body.email),
                  users |-> users, userRoles |-> userRoles]
       /\ IF reply.status = 201
          THEN \/ /\ Len(activityLog) < MaxLog
                  /\ \E salt \in Salts :
                        users' = users \cup
                            {UserRow(nextUserId, body, bcrypt_hash(body.password, salt),
                                     body.departmentId)}
                  /\ userRoles' = userRoles \cup
                        {<<nextUserId, id>> : id \in Range(body.roleIds.list)}
                  /\ activityLog' = Append(activityLog,
                        LogEntry(nextUserId, "USER_CREATED", now,
                                 [departmentId |-> body.departmentId,
                                  roles |-> {r.name : r \in rolesById(body.roleIds.list)}]))
                  /\ resp' = Sends(reply, formattedUser_P3(createdUser(nextUserId, users'), userRoles'))
               \* a write inside prisma.$transaction throws: it is rolled back
               \/ /\ UNCHANGED <<users, userRoles, activityLog>>
                  /\ resp' = Reply(500, "Failed to register user")
          ELSE /\ UNCHANGED <<users, userRoles, activityLog>>
               /\ resp' = reply
       /\ UNCHANGED <<now, hits, outbox, redeemed, bearer, emailFails, wrongRun, pending>>

\* login, lines 113-162: the response
login_P3_reply(email, password, t) ==
    IF findUserByEmail(email).id = 0
    THEN Reply(404, "User not found")
    ELSE IF ~bcrypt_compare(password, findUserByEmail(email).password)
    THEN Reply(401, "Invalid credentials")
    ELSE [status |-> 200, message |-> "",
          token |-> jwt_sign([id |-> findUserByEmail(email).id,
                              email |-> findUserByEmail(email).email],
                             JWT_SECRET, DAY, t),
          user |-> formattedUser(findUserByEmail(email), userRoles)]

login_P3(email, password) ==
    /\ resp' = login_P3_reply(email, password, now)
    /\ req' = [op |-> "login_P3", email |-> email, t |-> now,
               cred |-> Credential(email, password),
               payload |-> login_P3_reply(email, password, now).token, expiresIn |-> DAY]
    /\ UNCHANGED <<now, users, userRoles, activityLog, hits, outbox, redeemed, bearer,
                   emailFails, wrongRun, pending>>

----------------------------------------------------------------------------
(* The zod generation: part_003 164-420, errors go to errorHandler.        *)

DEFAULT_ROLE_ID == 1

\* loginSchema.parse(req.body) succeeds
loginSchemaOk(email, password) == isZodEmail(email) /\ Len(password) >= 6

\* registerSchema.parse(req.body) succeeds
registerSchemaOk(body) ==
    /\ Len(body.firstName) >= 2
    /\ Len(body.lastName) >= 2
    /\ isZodEmail(body.email)
    /\ Len(body.password) >= 6

\* userData.roles?.length ? userData.roles : [1]
rolesToAssign(body) ==
    IF body.roles.given /\ Len(body.roles.list) > 0
    THEN body.roles.list
    ELSE <<DEFAULT_ROLE_ID>>

\* register, lines 273-363: the response
register_Z_reply(body, t) ==
    IF ~registerSchemaOk(body)
    THEN errorHandler(Err("ZodError", "Validation error"))
    ELSE IF emailTaken(body.email)
    THEN errorHandler(Err("AuthenticationError", "Email already registered"))
    ELSE IF body.departmentId # NoDepartment /\ ~\E d \in departmentTable : d.id = body.departmentId
    THEN errorHandler(PrismaErr("P2003"))
    ELSE IF \E i \in 1..Len(rolesToAssign(body)) :
                ~\E r \in roleTable : r.id = rolesToAssign(body)[i]
    THEN errorHandler(PrismaErr("P2003"))
    ELSE IF \E i, j \in 1..Len(rolesToAssign(body)) :
                i # j /\ rolesToAssign(body)[i] = rolesToAssign(body)[j]
    THEN errorHandler(PrismaErr("P2002"))
    ELSE [status |-> 201, message |-> "",
          token |-> jwt_sign([userId |-> nextUserId, email |-> body.email,
                              roleIds |-> SortedSeq(Range(rolesToAssign(body))),
                              roles |-> [i \in 1..Len(rolesToAssign(body)) |->
                                            roleNameOf(SortedSeq(Range(rolesToAssign(body)))[i])]],
                             JWT_SECRET, DAY, t)]

register_Z(body) ==
    LET reply == register_Z_reply(body, now)
    IN /\ req' = [op |-> "register_Z", email |-> body.email, t |-> now, body |-> body,
                  existed |-> \E u \in users : Fold(u.email) = Fold(body.email),
                  users |-> users, userRoles |-> userRoles,
                  activityLog |-> activityLog]
       /\ IF reply.status = 201
          THEN \/ /\ Len(activityLog) < MaxLog
                  /\ \E salt \in Salts :
                        users' = users \cup
                            {UserRow(nextUserId, body, bcrypt_hash(body.password, salt),
                                     body.departmentId)}
                  /\ userRoles' = userRoles \cup
                        {<<nextUserId, id>> : id \in Range(rolesToAssign(body))}
                  /\ activityLog' = Append(activityLog,
                        LogEntry(nextUserId, "REGISTER", now, [ip |-> "ip"]))
                  /\ resp' = Sends(reply, formattedUser(createdUser(nextUserId, users'), userRoles'))
               \* a write inside prisma.$transaction throws: it is rolled back
               \/ /\ UNCHANGED <<users, userRoles, activityLog>>
                  /\ resp' = errorHandler(TIMED_OUT)
               \* userActivityLog.create of lines 342-351 throws, after the commit
               \/ /\ \E salt \in Salts :
                        users' = users \cup
                            {UserRow(nextUserId, body, bcrypt_hash(body.password, salt),
                                     body.departmentId)}
                  /\ userRoles' = userRoles \cup
                        {<<nextUserId, id>> : id \in Range(rolesToAssign(body))}
                  /\ UNCHANGED activityLog
                  /\ resp' = errorHandler(TIMED_OUT)
          ELSE /\ UNCHANGED <<users, userRoles, activityLog>>
               /\ resp' = reply
       /\ UNCHANGED <<now, hits, outbox, redeemed, bearer, emailFails, wrongRun, pending>>

\* login, lines 212-271: the response
login_Z_reply(email, password, t) ==
    IF ~loginSchemaOk(email, password)
    THEN errorHandler(Err("ZodError", "Validation error"))
    ELSE IF findUserByEmail(email).id = 0
    THEN errorHandler(Err("AuthenticationError", "Invalid credentials"))
    ELSE IF ~bcrypt_compare(password, findUserByEmail(email).password)
    THEN errorHandler(Err("AuthenticationError", "Invalid credentials"))
    ELSE [status |-> 200, message |-> "",
          token |-> jwt_sign([userId |-> findUserByEmail(email).id,
                              email |-> findUserByEmail(email).email,
                              roleIds |-> roleIdsOf(findUserByEmail(email).id),
                              roles |-> roleNamesOf(findUserByEmail(email).id)],
                             JWT_SECRET, DAY, t),
          user |-> formattedUser(findUserByEmail(email), userRoles)]

login_Z(email, password) ==
    LET reply == login_Z_reply(email, password, now)
    IN /\ resp' = reply
       /\ req' = [op |-> "login_Z", email |-> email, t |-> now,
                  cred |-> Credential(email, password),
                  payload |-> reply.token, expiresIn |-> DAY]
       /\ IF reply.status = 200
          THEN /\ Len(activityLog) < MaxLog
               /\ activityLog' = Append(activityLog,
                     LogEntry(findUserByEmail(email).id, "LOGIN", now, [ip |-> "ip"]))
          ELSE UNCHANGED activityLog
       /\ UNCHANGED <<now, users, userRoles, hits, outbox, redeemed, bearer, emailFails, wrongRun, pending>>

----------------------------------------------------------------------------
(* The account handlers of the four generations over one Directory.        *)

NoRoles == [given |-> FALSE, list |-> <<>>]

Roles(list) == [given |-> TRUE, list |-> list]

Body(email, password, department, roles) ==
    [firstName |-> Al, lastName |-> Bo, email |-> email, password |-> password,
     department |-> department, roles |-> roles]

BodyP3(email, departmentId, roleIds) ==
    [firstName |-> Al, lastName |-> Bo, email |-> email, password |-> Password1,
     departmentId |-> departmentId, roleIds |-> roleIds]

BodyZ(firstName, email, password, roles) ==
    [firstName |-> firstName, lastName |-> Bo, email |-> email, password |-> password,
     departmentId |-> NoDepartment, roles |-> roles]

Bodies ==
    {Body(e, Password1, "", Roles(<<"Operator">>)) : e \in {ALICE, ALICE_UC}}
    \cup {Body(ALICE, Weak, "", Roles(<<"Operator">>)),
          Body(ALICE, password9, "", Roles(<<"Operator">>)),
          Body(ALICE, Password1, "", Roles(<<"Manager">>)),
          Body(ALICE, Password1, "", Roles(<<"Operator", "Nobody">>)),
          Body(NOT_MAIL, Password1, "", Roles(<<"Operator">>)),
          Body(<<>>, Password1, "", Roles(<<"Operator">>)),
          Body(ALICE, Password1, "", NoRoles),
          Body(ALICE, Password1, "", Roles(<<"Nobody">>)),
          Body(ALICE, Password1, "Nowhere", Roles(<<"Admin">>)),
          Body(ALICE, Password1, "Executive Management", Roles(<<"Admin">>))}

BodiesP2 ==
    {BodyP2(e, Password1) : e \in {ALICE, ALICE_UC}}
    \cup {BodyP2(ALICE, password9), BodyP2(NOT_MAIL, Password1)}

BodiesP3 ==
    {BodyP3(e, NoDepartment, Roles(<<3>>)) : e \in {ALICE, ALICE_UC}}
    \cup {BodyP3(ALICE, NoDepartment, NoRoles),
          BodyP3(ALICE, NoDepartment, Roles(<<2>>)),
          BodyP3(ALICE, 1, Roles(<<2>>))}

BodiesZ ==
    {BodyZ(Al, e, Password1, NoRoles) : e \in {ALICE, ALICE_UC}}
    \cup {BodyZ(<<"A">>, ALICE, Password1, NoRoles),
          BodyZ(Al, ALICE, Weak, NoRoles),
          BodyZ(Al, ALICE, password9, NoRoles),
          BodyZ(Al, ALICE, Password1, Roles(<<3, 8>>))}

LoginEmails == {ALICE, ALICE_UC, BOB}

LoginPasswords == {Password1, Password2}

\* getUsers and getUserById (part_004 4-38), mounted behind authenticate and,
\* for the listing, authorize(['Admin']) (part_001 37-38): the caller is a
\* user of the directory.  Both send the rows as findMany and findUnique
\* return them.
includedUser(row) == row @@ [userRoles |-> roleRowsOf(row.id, userRoles)]

UserIds == 1..2

getUsers ==
    /\ \E caller \in users : "Admin" \in Range(roleNamesOf(caller.id))
    /\ resp' = [status |-> 200, message |-> "", token |-> NoToken,
                users |-> {includedUser(u) : u \in users}]
    /\ req' = [op |-> "getUsers", t |-> now]
    /\ UNCHANGED <<now, users, userRoles, activityLog, hits, outbox, redeemed,
                   bearer, emailFails, wrongRun, pending>>

getUserById(id) ==
    /\ users # {}
    /\ resp' = IF findUserById(id) = NoUser
               THEN Reply(404, "User not found")
               ELSE Sends(Reply(200, ""), includedUser(findUserById(id)))
    /\ req' = [op |-> "getUserById", id |-> id, t |-> now]
    /\ UNCHANGED <<now, users, userRoles, activityLog, hits, outbox, redeemed,
                   bearer, emailFails, wrongRun, pending>>

NextAccounts ==
    \/ \E body \in Bodies : register(body)
    \/ \E body \in BodiesP2 : register_P2(body)
    \/ \E body \in BodiesP3 : register_P3(body)
    \/ \E body \in BodiesZ : register_Z(body)
    \/ \E email \in LoginEmails, password \in LoginPasswords : login(email, password)
    \/ \E email \in LoginEmails, password \in LoginPasswords : login_P3(email, password)
    \/ \E email \in LoginEmails, password \in LoginPasswords : login_Z(email, password)
    \/ getUsers
    \/ \E id \in UserIds : getUserById(id)

SpecAccounts == Init /\ [][NextAccounts]_vars

----------------------------------------------------------------------------
(* Claims on the account handlers.                                         *)

LoginOps == {"login", "login_P3", "login_Z"}

RegisterOps == {"register", "register_P2", "register_P3", "register_Z"}

\* what the handler that served req answers to another pair of credentials
replyOf(op, email, password) ==
    CASE op = "login" -> login_reply(email, password, now)
      [] op = "login_P3" -> login_P3_reply(email, password, now)
      [] op = "login_Z" -> login_Z_reply(email, password, now)

\* C4: a login with an unregistered email is answered with the status code
\* and the message that a login with a registered email and a wrong password
\* gets from the same handler.
C4_FailuresIndistinguishable ==
    \A email \in LoginEmails, password \in LoginPasswords :
        (/\ req.op \in LoginOps
         /\ req.cred = "nouser"
         /\ Credential(email, password) = "wrong")
        => /\ resp.status = replyOf(req.op, email, password).status
           /\ resp.message = replyOf(req.op, email, password).message

\* the body is one every generation's validation accepts
wellFormed(body) ==
    /\ Len(body.firstName) >= 2 /\ Len(body.lastName) >= 2
    /\ isValidEmail(body.email) /\ isZodEmail(body.email)
    /\ isValidPassword(body.password) /\ ~isWeakPassword(body.password)

\* C8: a registration with an email that already belongs to a user (the rest
\* of the body being well formed) is answered 409 and leaves the User and
\* UserRole rows unchanged.
C8_DuplicateEmailIs409 ==
    (req.op \in RegisterOps /\ req.existed /\ wellFormed(req.body))
    => /\ resp.status = 409
       /\ users = req.users
       /\ userRoles = req.userRoles

----------------------------------------------------------------------------
(* Password recovery of the controller generation.  The ticket is the      *)
(* PASSWORD_RESET_REQUESTED row of UserActivityLog.                         *)

RESET_TOKEN_EXPIRES == 3600000

MaxResetLog == 6

NoResetToken == 0

RESET_REQUESTED == "PASSWORD_RESET_REQUESTED"

GENERIC_MESSAGE == "If the email is registered, you will receive a password reset link"

\* crypto.randomBytes(32).toString('hex'): a value no earlier call returned
randomBytes ==
    Cardinality({i \in 1..Len(activityLog) : activityLog[i].action = RESET_REQUESTED}) + 1

\* requestPasswordReset, lines 259-340
requestPasswordReset(email) ==
    LET user == findUserByEmail(email)
        resetToken == randomBytes
    IN /\ req' = [op |-> "requestPasswordReset", email |-> email, t |-> now,
                  resetToken |-> resetToken]
       /\ IF email = <<>>
          THEN /\ resp' = Reply(400, "Email is required")
               /\ UNCHANGED <<activityLog, outbox>>
          ELSE IF user.id = 0
          THEN /\ resp' = Reply(200, GENERIC_MESSAGE)
               /\ UNCHANGED <<activityLog, outbox>>
          ELSE \/ /\ Len(activityLog) < MaxResetLog
                  /\ \E salt \in Salts :
                        activityLog' = Append(activityLog,
                            LogEntry(user.id, RESET_REQUESTED, now,
                                     [resetToken |-> bcrypt_hash(resetToken, salt),
                                      expires |-> now + RESET_TOKEN_EXPIRES]))
                  /\ \E sent \in BOOLEAN :
                        IF sent
                        THEN /\ outbox' = outbox \cup {[to |-> email, token |-> resetToken]}
                             /\ resp' = Reply(200, GENERIC_MESSAGE)
                        ELSE /\ outbox' = outbox
                             /\ resp' = Reply(500, "Failed to process password reset request")
               \* userActivityLog.create throws: the ticket is not stored
               \/ /\ UNCHANGED <<activityLog, outbox>>
                  /\ resp' = Reply(500, "Failed to process password reset request")
       /\ UNCHANGED <<now, users, userRoles, hits, redeemed, bearer, emailFails, wrongRun, pending>>

\* findFirst({ where: { userId, action }, orderBy: { timestamp: 'desc' } }):
\* the rows it may return (rows of one timestamp come in no fixed order)
latestResetRequests(userId) ==
    {i \in 1..Len(activityLog) :
        /\ activityLog[i].userId = userId
        /\ activityLog[i].action = RESET_REQUESTED
        /\ \A j \in 1..Len(activityLog) :
              (activityLog[j].userId = userId /\ activityLog[j].action = RESET_REQUESTED)
              => activityLog[j].timestamp <= activityLog[i].timestamp}

expiredAtExpiry(expires, t) == t >= expires

\* Date.now() > expiryDate.getTime()
expired(expires, t) == t > expires

\* resetPassword, lines 342-450
resetPassword(email, token, newPassword) ==
    LET user == findUserByEmail(email)
        Met(ticket, expires, matches) ==
            [op |-> "resetPassword", email |-> email, token |-> token, t |-> now,
             newPassword |-> newPassword, ticket |-> ticket, expires |-> expires, matches |-> matches,
             redeemedBefore |-> token \in redeemed, users |-> users,
             userRoles |-> userRoles, activityLog |-> activityLog]
        Refuse(reply, ticket, expires, matches) ==
            /\ resp' = reply
            /\ req' = Met(ticket, expires, matches)
            /\ UNCHANGED <<users, activityLog, redeemed>>
    IN /\ IF email = <<>> \/ token = NoResetToken \/ newPassword = <<>>
          THEN Refuse(Reply(400, "Email, token, and new password are required"), "unread", 0, FALSE)
          ELSE IF isWeakPassword(newPassword)
          THEN Refuse(Reply(400, WEAK_MESSAGE), "unread", 0, FALSE)
          ELSE IF user.id = 0
          THEN Refuse(Reply(404, "User not found"), "unread", 0, FALSE)
          ELSE IF latestResetRequests(user.id) = {}
          THEN Refuse(Reply(400, "Invalid or expired reset token"), "none", 0, FALSE)
          ELSE \E i \in latestResetRequests(user.id) :
                 LET resetDetails == activityLog[i].details
                     isValidToken == bcrypt_compare(token, resetDetails.resetToken)
                 IN IF expired(resetDetails.expires, now)
                    THEN Refuse(Reply(400, "Reset token has expired"),
                                "found", resetDetails.expires, isValidToken)
                    ELSE IF ~isValidToken
                    THEN Refuse(Reply(400, "Invalid reset token"),
                                "found", resetDetails.expires, FALSE)
                    ELSE \/ /\ Len(activityLog) + 2 <= MaxResetLog
                            /\ \E salt \in Salts :
                                  users' = (users \ {user}) \cup
                                      {[user EXCEPT !.password = bcrypt_hash(newPassword, salt)]}
                            /\ activityLog' = activityLog \o
                                  <<LogEntry(user.id, "PASSWORD_CHANGED", now,
                                             [method |-> "RESET", timestamp |-> now]),
                                    LogEntry(user.id, "PASSWORD_RESET_COMPLETED", now,
                                             [timestamp |-> now])>>
                            /\ redeemed' = redeemed \cup {token}
                            /\ resp' = Reply(200, "Password has been reset successfully")
                            /\ req' = Met("found", resetDetails.expires, TRUE)
                         \* a write inside prisma.$transaction throws: it is rolled back
                         \/ Refuse(Reply(500, "Failed to reset password"),
                                   "found", resetDetails.expires, TRUE)
       /\ UNCHANGED <<now, userRoles, hits, outbox, bearer, emailFails, wrongRun, pending>>

ClockReset == {RESET_TOKEN_EXPIRES, RESET_TOKEN_EXPIRES + 1}

\* the Directory after the controller's register of ALICE as Operator
InitReset ==
    /\ now = 0
    /\ users = {UserRow(1, Body(ALICE, Password1, "", Roles(<<"Operator">>)),
                        bcrypt_hash(Password1, 1), NoDepartment)}
    /\ userRoles = {<<1, 3>>}
    /\ activityLog = <<LogEntry(1, "USER_CREATED", 0,
                                [departmentId |-> NoDepartment,
                                 roles |-> rolesByName(<<"Operator">>)])>>
    /\ hits = [k \in IPs \cup Emails |-> NoClient]
    /\ outbox = {}
    /\ redeemed = {}
    /\ bearer = NotKept
    /\ req = [op |-> "register", email |-> ALICE, t |-> 0,
              body |-> Body(ALICE, Password1, "", Roles(<<"Operator">>)),
              existed |-> FALSE, users |-> {}, userRoles |-> {}]
    /\ resp = [status |-> 201, message |-> "",
               token |-> jwt_sign([id |-> 1, email |-> ALICE], JWT_SECRET, DAY, 0),
               user |-> formattedUser(findUserById(1), userRoles)]
    /\ emailFails = [e \in Emails |-> NoFails]
    /\ wrongRun = [e \in Emails |-> NoRun]
    /\ pending = <<>>

NextReset ==
    \/ \E email \in {ALICE, BOB} : requestPasswordReset(email)
    \/ \E token \in {m.token : m \in outbox} \cup {randomBytes},
          newPassword \in {Password2, Weak} :
          resetPassword(ALICE, token, newPassword)
    \/ resetPassword(BOB, randomBytes, Password2)
    \/ Advance(ClockReset)

SpecReset == InitReset /\ [][NextReset]_vars

\* C6: once a resetPassword with a token has succeeded, a later resetPassword
\* with the same email and the same token fails and leaves the password as it
\* was; a ticket is consumed at most once.
C6_TicketIsSingleUse ==
    (req.op = "resetPassword" /\ req.redeemedBefore)
    => /\ resp.status >= 400
       /\ users = req.users

\* C7: resetPassword succeeds only strictly before the ticket's expiry; with
\* the right token at the expiry instant or later it answers that the token
\* has expired and leaves the password as it was.
C7_RedeemedOnlyBeforeExpiry ==
    /\ (req.op = "resetPassword" /\ resp.status = 200) => req.t < req.expires
    /\ (req.op = "resetPassword" /\ req.matches /\ req.t >= req.expires)
       => /\ resp = Reply(400, "Reset token has expired")
          /\ users = req.users

----------------------------------------------------------------------------
(* The guards.  A header is NoHeader or [scheme, token]; a guard either    *)
(* answers, hands an error to errorHandler, or calls next().                *)

NoHeader == [scheme |-> "", token |-> NoToken]

Header(scheme, token) == [scheme |-> scheme, token |-> token]

NoError == [class |-> "", message |-> "", code |-> ""]

NEXT == [status |-> 0, message |-> "next()", token |-> NoToken]

\* the error class jwt.verify threw, as the catch clauses see it
ThrownBy(verdict) == Err("JsonWebTokenError", verdict.message)

TokenOps == {"login", "login_P2", "login_Z"}

\* the caller keeps the token of the login response just received
Keep ==
    /\ req.op \in TokenOps
    /\ resp.token.form = "jws"
    /\ bearer.token # resp.token
    /\ bearer' = [token |-> resp.token, expiresIn |-> req.expiresIn, at |-> req.t]
    /\ UNCHANGED <<now, users, userRoles, activityLog, hits, outbox, redeemed, req, resp,
                   emailFails, wrongRun, pending>>

\* login of part_002 as the route runs it while loginLimiter lets the
\* request through
login_P2(email, password) ==
    /\ resp' = login_P2_reply(email, password, now)
    /\ req' = [op |-> "login_P2", email |-> email, t |-> now,
               cred |-> Credential(email, password),
               payload |-> login_P2_reply(email, password, now).token, expiresIn |-> HOUR]
    /\ UNCHANGED <<now, users, userRoles, activityLog, hits, outbox, redeemed, bearer,
                   emailFails, wrongRun, pending>>

Guarded(op, header, verdict, error, user, next) ==
    [op |-> op, header |-> header, t |-> now, kept |-> bearer, verdict |-> verdict,
     error |-> error, user |-> user, next |-> next]

\* the payload has the field the guard reads the user id from
has(verdict, field) == verdict.ok /\ field \in DOMAIN verdict.payload

\* findUnique({ where: { id: undefined } }) throws
INVALID_WHERE == Err("PrismaClientValidationError", "Argument where needs id")

\* authenticate, error.middleware.ts lines 156-202
authenticate(header) ==
    LET verdict == jwt_verify(header.token, JWT_SECRET, now)
        user == IF has(verdict, "id") THEN findUserById(verdict.payload.id) ELSE NoUser
    IN /\ IF header.scheme # "Bearer"
          THEN /\ resp' = Reply(401, "Authentication required")
               /\ req' = Guarded("authenticate", header, verdict, NoError, NoUser, FALSE)
          ELSE IF ~verdict.ok
          THEN /\ resp' = Reply(401, "Invalid or expired token")
               /\ req' = Guarded("authenticate", header, verdict, ThrownBy(verdict),
                                 NoUser, FALSE)
          ELSE IF ~has(verdict, "id")
          THEN /\ resp' = Reply(401, "Invalid or expired token")
               /\ req' = Guarded("authenticate", header, verdict, INVALID_WHERE,
                                 NoUser, FALSE)
          ELSE IF user.id = 0
          THEN /\ resp' = Reply(401, "User not found")
               /\ req' = Guarded("authenticate", header, verdict, NoError, NoUser, FALSE)
          ELSE /\ resp' = NEXT
               /\ req' = Guarded("authenticate", header, verdict, NoError,
                                 [id |-> user.id, email |-> user.email,
                                  roles |-> roleNamesOf(user.id)], TRUE)
       /\ UNCHANGED <<now, users, userRoles, activityLog, hits, outbox, redeemed, bearer,
                      emailFails, wrongRun, pending>>

\* authenticateToken, auth.middleware.ts lines 17-76
authenticateToken(header) ==
    LET verdict == jwt_verify(header.token, JWT_SECRET, now)
        user == IF has(verdict, "userId") THEN findUserById(verdict.payload.userId)
                ELSE NoUser
        Fail(error) ==
            /\ resp' = errorHandler(error)
            /\ req' = Guarded("authenticateToken", header, verdict, error, NoUser, FALSE)
            /\ UNCHANGED activityLog
    IN /\ IF header.token.form = "none"
          THEN Fail(Err("AuthenticationError", "Authentication token is required"))
          ELSE IF ~verdict.ok
          THEN Fail(Err("AuthenticationError", "Invalid or expired token"))
          ELSE IF ~has(verdict, "userId")
          THEN Fail(INVALID_WHERE)
          ELSE IF user.id = 0
          THEN Fail(Err("AuthenticationError", "User not found"))
          ELSE /\ Len(activityLog) < MaxLog
               /\ activityLog' = Append(activityLog,
                     LogEntry(user.id, "AUTHENTICATE", now, [ip |-> "ip"]))
               /\ resp' = NEXT
               /\ req' = Guarded("authenticateToken", header, verdict, NoError,
                                 [id |-> user.id, email |-> user.email,
                                  roleIds |-> roleIdsOf(user.id),
                                  roles |-> roleNamesOf(user.id)], TRUE)
       /\ UNCHANGED <<now, users, userRoles, hits, outbox, redeemed, bearer,
                      emailFails, wrongRun, pending>>

\* authenticateToken, auth.middleware.ts lines 109-142
authenticateToken_P2(header) ==
    LET verdict == jwt_verify(header.token, JWT_SECRET, now)
        user == IF has(verdict, "id") THEN findUserById(verdict.payload.id) ELSE NoUser
    IN /\ IF header.token.form = "none"
          THEN /\ resp' = Reply(401, "Token missing")
               /\ req' = Guarded("authenticateToken_P2", header, verdict, NoError,
                                 NoUser, FALSE)
          ELSE IF ~verdict.ok
          THEN /\ resp' = Reply(403, "Invalid or expired token")
               /\ req' = Guarded("authenticateToken_P2", header, verdict,
                                 ThrownBy(verdict), NoUser, FALSE)
          ELSE IF ~has(verdict, "id")
          THEN /\ resp' = Reply(403, "Invalid or expired token")
               /\ req' = Guarded("authenticateToken_P2", header, verdict, INVALID_WHERE,
                                 NoUser, FALSE)
          ELSE IF user.id = 0
          THEN /\ resp' = Reply(401, "Invalid token: user not found")
               /\ req' = Guarded("authenticateToken_P2", header, verdict, NoError,
                                 NoUser, FALSE)
          ELSE /\ resp' = NEXT
               /\ req' = Guarded("authenticateToken_P2", header, verdict, NoError,
                                 user, TRUE)
       /\ UNCHANGED <<now, users, userRoles, activityLog, hits, outbox, redeemed, bearer,
                      emailFails, wrongRun, pending>>

forged(token) ==
    IF token.form = "jws"
    THEN [token EXCEPT !.sig = <<OTHER_SECRET, token.claims, token.iat, token.exp>>]
    ELSE NotAToken

\* the Authorization headers a caller holding `bearer` sends
Headers ==
    {NoHeader, Header("Bearer", bearer.token),
     Header("Bearer", NotAToken), Header("Bearer", forged(bearer.token))}

ClockToken == {999, HOUR * 1000, DAY * 1000 - 1, DAY * 1000}

InitGuard == InitReset

NextGuard ==
    \/ login(ALICE, Password1)
    \/ login_P2(ALICE, Password1)
    \/ login_Z(ALICE, Password1)
    \/ Keep
    \/ \E header \in Headers : authenticate(header)
    \/ \E header \in Headers : authenticateToken(header)
    \/ \E header \in Headers : authenticateToken_P2(header)
    \/ Advance(ClockToken)

SpecGuard == InitGuard /\ [][NextGuard]_vars

GuardOps == {"authenticate", "authenticateToken", "authenticateToken_P2"}

\* the guard was handed the token the caller kept, and it reads that
\* generation's payload
presentedKept ==
    /\ req.op \in GuardOps
    /\ req.kept.token.form = "jws"
    /\ req.header = Header("Bearer", req.kept.token)

C10_BadTokenIs401 ==
    (/\ req.op \in GuardOps
     /\ req.header.token.form = "none" \/ ~req.verdict.ok)
    => /\ resp.status = 401
       /\ ~req.next

----------------------------------------------------------------------------
(* Role checks.  A route is mounted with its role list; the guard before   *)
(* it has set req.user, or has not.                                         *)

RoleNames == {"Admin", "Operator", "Manager"}

MaxRoles == 2

RoleLists == UNION {[1..n -> RoleNames] : n \in 0..MaxRoles}

\* the role rows of a user holding the roles named
roleRows(names) ==
    [i \in 1..Len(names) |-> CHOOSE r \in roleTable : r.name = names[i]]

hasEveryRequiredRole(names, requiredRoles) ==
    \A i \in 1..Len(requiredRoles) : requiredRoles[i] \in Range(names)

\* requiredRoles.some((role) => userRoles.includes(role))
hasRequiredRole(names, requiredRoles) ==
    \E i \in 1..Len(requiredRoles) : requiredRoles[i] \in Range(names)

\* req.user.roles.some((role) => allowedRoles.includes(role))
hasAllowedRole(roles, allowedRoles) ==
    \E i \in 1..Len(roles) : roles[i] \in Range(allowedRoles)

\* authorize(requiredRoles), error.middleware.ts lines 204-224; req.user.roles
\* are role rows
authorize(requiredRoles) ==
    LET userRolesOfReq == [i \in 1..Len(req.roles) |-> roleRows(req.roles)[i].name]
    IN /\ req.op = "route"
       /\ IF ~req.authenticated
          THEN /\ resp' = Reply(401, "Authentication required")
               /\ req' = [req EXCEPT !.op = "authorize"]
          ELSE IF ~hasRequiredRole(userRolesOfReq, requiredRoles)
          THEN /\ resp' = Reply(403, "Insufficient permissions")
               /\ req' = [req EXCEPT !.op = "authorize"]
          ELSE /\ resp' = NEXT
               /\ req' = [req EXCEPT !.op = "authorize", !.next = TRUE]
       /\ UNCHANGED <<now, users, userRoles, activityLog, hits, outbox, redeemed, bearer,
                      emailFails, wrongRun, pending>>

\* requireRoles(allowedRoles), auth.middleware.ts lines 78-99; req.user.roles
\* are role names
requireRoles(allowedRoles) ==
    /\ req.op = "route"
    /\ IF ~req.authenticated
       THEN /\ resp' = errorHandler(Err("AuthenticationError", "User not authenticated"))
            /\ req' = [req EXCEPT !.op = "requireRoles",
                         !.error = Err("AuthenticationError", "User not authenticated")]
       ELSE IF ~hasAllowedRole(req.roles, allowedRoles)
       THEN /\ resp' = errorHandler(Err("AuthorizationError", "Insufficient permissions"))
            /\ req' = [req EXCEPT !.op = "requireRoles",
                         !.error = Err("AuthorizationError", "Insufficient permissions")]
       ELSE /\ resp' = NEXT
            /\ req' = [req EXCEPT !.op = "requireRoles", !.next = TRUE]
    /\ UNCHANGED <<now, users, userRoles, activityLog, hits, outbox, redeemed, bearer,
                   emailFails, wrongRun, pending>>

Route(authenticated, roles, requiredRoles) ==
    [op |-> "route", authenticated |-> authenticated, roles |-> roles,
     requiredRoles |-> requiredRoles, error |-> NoError, next |-> FALSE]

\* a request that reached a route's role check
InitAuthz ==
    /\ now = 0
    /\ users = {}
    /\ userRoles = {}
    /\ activityLog = <<>>
    /\ hits = [k \in IPs \cup Emails |-> NoClient]
    /\ outbox = {}
    /\ redeemed = {}
    /\ bearer = NotKept
    /\ req \in {Route(TRUE, roles, requiredRoles) : roles, requiredRoles \in RoleLists}
               \cup {Route(FALSE, <<>>, requiredRoles) : requiredRoles \in RoleLists}
    /\ resp = Reply(0, "")
    /\ emailFails = [e \in Emails |-> NoFails]
    /\ wrongRun = [e \in Emails |-> NoRun]
    /\ pending = <<>>

NextAuthz ==
    \/ authorize(req.requiredRoles)
    \/ requireRoles(req.requiredRoles)

SpecAuthz == InitAuthz /\ [][NextAuthz]_vars

\* C9: for an authenticated context the role check passes (next() is called)
\* exactly when the context's role names and requiredRoles have an element
\* in common, otherwise it denies (authorize: 403; requireRoles:
\* AuthorizationError); holding only Operator is denied where Admin is
\* required and let through where Operator or Admin is.
C9_RoleCheckIsOr ==
    (req.op \in {"authorize", "requireRoles"} /\ req.authenticated)
    => /\ req.next <=> Range(req.roles) \cap Range(req.requiredRoles) # {}
       /\ req.next => resp = NEXT
       /\ (~req.next /\ req.op = "authorize") => resp.status = 403
       /\ (~req.next /\ req.op = "requireRoles") => req.error.class = "AuthorizationError"
       /\ (req.roles = <<"Operator">> /\ req.requiredRoles = <<"Admin">>) => ~req.next
       /\ (req.roles = <<"Operator">> /\ req.requiredRoles = <<"Operator", "Admin">>)
          => req.next

\* an Operator was let through a route requiring Operator or Admin
C9_Witness ==
    /\ req.op = "authorize"
    /\ req.authenticated
    /\ req.roles = <<"Operator">>
    /\ req.requiredRoles = <<"Operator", "Admin">>
    /\ req.next

\* C11: a request with a valid token whose user holds none of the required
\* roles is answered 403; a request refused for its token alone is never
\* answered 403, and one refused for its roles alone never 401.
C11_NeverConflated ==
    /\ (req.op \in {"authorize", "requireRoles"} /\ req.authenticated /\ ~req.next)
       => resp.status = 403
    /\ (req.op \in GuardOps /\ (req.header.token.form = "none" \/ ~req.verdict.ok))
       => resp.status # 403

\* C12: no response carries a user's password hash: not the user sent by
\* register or login, not the user a guard attaches to the request, not a
\* user of the listing.
C12_NoPasswordInResponse ==
    /\ "user" \in DOMAIN resp => "password" \notin DOMAIN resp.user
    /\ "users" \in DOMAIN resp => \A u \in resp.users : "password" \notin DOMAIN u
    /\ (req.op \in GuardOps /\ req.next) => "password" \notin DOMAIN req.user

\* C13 as stated: a successful registration issues no bearer token.
C13_RegistrationIssuesNoToken ==
    (req.op \in RegisterOps /\ resp.status = 201) => resp.token = NoToken

\* the token of a registration names the created user
namesCreated(claims) ==
    /\ claims.email = req.email
    /\ IF req.op = "register_Z"
       THEN claims.userId = Cardinality(req.users) + 1
       ELSE claims.id = Cardinality(req.users) + 1

\* C13, amended: a successful registration returns the id and the email of
\* the created user; register of part_002 issues no token, and the three other
\* registers return with the user a bearer token that verifies under the
\* server's secret, names the created user and expires 24 hours after issue.
C13_RegistrationIssuesTokenButP2 ==
    (req.op \in RegisterOps /\ resp.status = 201) =>
        /\ resp.user.id = Cardinality(req.users) + 1
        /\ resp.user.email = req.email
        /\ IF req.op = "register_P2"
           THEN resp.token = NoToken
           ELSE /\ jwt_verify(resp.token, JWT_SECRET, req.t).ok
                /\ namesCreated(resp.token.claims)
                /\ resp.token.exp = resp.token.iat + DAY

C13_Witness ==
    /\ req.op = "register_Z"
    /\ resp.status = 201
    /\ resp.token # NoToken
    /\ \E u \in users : u.id = resp.user.id /\ u \notin req.users

\* the audit record of the registration of a user
audited(userId) ==
    \E i \in DOMAIN activityLog :
        /\ activityLog[i].userId = userId
        /\ activityLog[i].action \in {"USER_CREATED", "REGISTER"}

\* C14: registration is atomic: a user created by a register that assigns
\* roles exists together with its role assignments and its audit record, and
\* a registration answered with a server error has left no user and no role
\* assignment behind.
C14_RegistrationIsAtomic ==
    req.op \in {"register", "register_P3", "register_Z"} =>
        /\ \A u \in users \ req.users :
              /\ \E ur \in userRoles : ur[1] = u.id
              /\ audited(u.id)
        /\ resp.status >= 500 => (users = req.users /\ userRoles = req.userRoles)

\* C15: requestPasswordReset answers every email, registered or not, and
\* whatever becomes of the ticket's storage and of the mail, with 200 and the
\* same generic acknowledgement.
C15_NoEnumerationSignal ==
    (req.op = "requestPasswordReset" /\ req.email # <<>>) =>
        (resp.status = 200 /\ resp.message = GENERIC_MESSAGE)

\* resetPassword read a ticket and the secret does not match its digest
mismatched == req.op = "resetPassword" /\ req.ticket = "found" /\ ~req.matches

redeemable(email, token) ==
    /\ findUserByEmail(email).id # 0
    /\ \E i \in latestResetRequests(findUserByEmail(email).id) :
          /\ ~expired(activityLog[i].details.expires, now)
          /\ bcrypt_compare(token, activityLog[i].details.resetToken)

\* the audit records of a completed reset are the last two rows of the log
resetAudited ==
    /\ Len(activityLog) = Len(req.activityLog) + 2
    /\ activityLog[Len(activityLog) - 1].action = "PASSWORD_CHANGED"
    /\ activityLog[Len(activityLog)].action = "PASSWORD_RESET_COMPLETED"

\* C17: the confirmation of a reset is atomic: the new password, the
\* consumption of the ticket and the audit record come together or not at
\* all; once the password is updated the ticket is no longer redeemable, and
\* a refused confirmation changes neither the password nor the log.
C17_ResetIsAtomic ==
    req.op = "resetPassword" =>
        IF resp.status = 200
        THEN /\ users # req.users
             /\ resetAudited
             /\ ~redeemable(req.email, req.token)
        ELSE /\ users = req.users
             /\ activityLog = req.activityLog

\* the rows of the reset requests of the user of req, in the order of their
\* insertion, as resetPassword found them
requestsBefore ==
    {i \in DOMAIN req.activityLog :
        /\ req.activityLog[i].action = RESET_REQUESTED
        /\ req.activityLog[i].userId = findUserByEmail(req.email).id}

\* C18: only the most recent reset ticket is redeemable: a resetPassword that
\* succeeds presented the secret of the last requestPasswordReset made for the
\* user, whatever the interleaving of the requests.
C18_OnlyLatestTicketRedeemable ==
    (req.op = "resetPassword" /\ resp.status = 200) =>
        \A i \in requestsBefore :
            (\A j \in requestsBefore : j <= i) =>
                bcrypt_compare(req.token, req.activityLog[i].details.resetToken)

----------------------------------------------------------------------------
(* The life of an issued token: login, then the operations that change the *)
(* user's row, then authenticate.                                           *)

\* changePassword, auth.controller.ts lines 452-530; userId is req.user?.id as
\* authenticate left it
changePassword(userId, currentPassword, newPassword) ==
    LET user == findUserById(userId)
        Refuse(reply) ==
            /\ resp' = reply
            /\ UNCHANGED <<users, activityLog>>
    IN /\ req' = [op |-> "changePassword", userId |-> userId, t |-> now,
                  kept |-> bearer, users |-> users, userRoles |-> userRoles,
                  activityLog |-> activityLog]
       /\ IF userId = 0
          THEN Refuse(Reply(401, "Not authenticated"))
          ELSE IF currentPassword = <<>> \/ newPassword = <<>>
          THEN Refuse(Reply(400, "Current password and new password are required"))
          ELSE IF isWeakPassword(newPassword)
          THEN Refuse(Reply(400, "New password must be at least 8 characters long and include both letters and numbers"))
          ELSE IF user.id = 0
          THEN Refuse(Reply(404, "User not found"))
          ELSE IF ~bcrypt_compare(currentPassword, user.password)
          THEN Refuse(Reply(401, "Current password is incorrect"))
          ELSE \/ /\ Len(activityLog) < MaxResetLog
                  /\ \E salt \in Salts :
                        users' = (users \ {user}) \cup
                            {[user EXCEPT !.password = bcrypt_hash(newPassword, salt)]}
                  /\ activityLog' = Append(activityLog,
                        LogEntry(userId, "PASSWORD_CHANGED", now,
                                 [method |-> "USER_INITIATED", timestamp |-> now]))
                  /\ resp' = Reply(200, "Password changed successfully")
               \* a write inside prisma.$transaction throws: it is rolled back
               \/ Refuse(Reply(500, "Failed to change password"))
       /\ UNCHANGED <<now, userRoles, hits, outbox, redeemed, bearer, emailFails, wrongRun, pending>>

\* UserRole_userId_fkey and UserActivityLog_userId_fkey, ON DELETE RESTRICT
referenced(id) ==
    \/ \E ur \in userRoles : ur[1] = id
    \/ \E i \in DOMAIN activityLog : activityLog[i].userId = id

\* deleteUser, part_004 lines 64-73; every failure of prisma.user.delete is
\* answered 500
deleteUser(id) ==
    /\ req' = [op |-> "deleteUser", id |-> id, t |-> now, kept |-> bearer,
               users |-> users]
    /\ IF findUserById(id).id = 0 \/ referenced(id)
       THEN /\ resp' = Reply(500, "Failed to delete user")
            /\ users' = users
       ELSE /\ resp' = Reply(200, "User deleted successfully")
            /\ users' = users \ {findUserById(id)}
    /\ UNCHANGED <<now, userRoles, activityLog, hits, outbox, redeemed, bearer,
                   emailFails, wrongRun, pending>>

\* the user id authenticate attaches for the token the caller holds, 0 when
\* it does not call next()
attachedId ==
    IF /\ has(jwt_verify(bearer.token, JWT_SECRET, now), "id")
       /\ findUserById(bearer.token.claims.id).id # 0
    THEN bearer.token.claims.id
    ELSE 0

ClockRevoke == {DAY * 1000 - 1, DAY * 1000}

MaxRevokeLog == 5

\* the Directory after the controller's register of ALICE as Admin
InitRevoke ==
    /\ now = 0
    /\ users = {UserRow(1, Body(ALICE, Password1, "", Roles(<<"Admin">>)),
                        bcrypt_hash(Password1, 1), NoDepartment)}
    /\ userRoles = {<<1, 1>>}
    /\ activityLog = <<LogEntry(1, "USER_CREATED", 0,
                                [departmentId |-> NoDepartment,
                                 roles |-> rolesByName(<<"Admin">>)])>>
    /\ hits = [k \in IPs \cup Emails |-> NoClient]
    /\ outbox = {}
    /\ redeemed = {}
    /\ bearer = NotKept
    /\ req = [op |-> "register", email |-> ALICE, t |-> 0,
              body |-> Body(ALICE, Password1, "", Roles(<<"Admin">>)),
              existed |-> FALSE, users |-> {}, userRoles |-> {}]
    /\ resp = [status |-> 201, message |-> "",
               token |-> jwt_sign([id |-> 1, email |-> ALICE], JWT_SECRET, DAY, 0),
               user |-> formattedUser(findUserById(1), userRoles)]
    /\ emailFails = [e \in Emails |-> NoFails]
    /\ wrongRun = [e \in Emails |-> NoRun]
    /\ pending = <<>>

\* the routes of part_001: change-password behind authenticate, the deletion
\* behind authenticate and authorize(['Admin'])
NextRevoke ==
    \/ login(ALICE, Password1)
    \/ Keep
    \/ \E currentPassword \in {Password1, Password2} :
          /\ attachedId # 0
          /\ changePassword(attachedId, currentPassword, Password2)
          /\ Len(activityLog') <= MaxRevokeLog
    \/ /\ requestPasswordReset(ALICE)
       /\ Len(activityLog') <= MaxRevokeLog
    \/ \E token \in {m.token : m \in outbox} :
          /\ resetPassword(ALICE, token, Password2)
          /\ Len(activityLog') <= MaxRevokeLog
    \/ \E id \in UserIds :
          /\ attachedId # 0
          /\ "Admin" \in Range(roleNamesOf(attachedId))
          /\ deleteUser(id)
    \/ authenticate(Header("Bearer", bearer.token))
    \/ Advance(ClockRevoke)

SpecRevoke == InitRevoke /\ [][NextRevoke]_vars

\* login was logged, and after it a change of the password
passwordChangedSinceLogin ==
    \E i, j \in DOMAIN activityLog :
        /\ i < j
        /\ activityLog[i].action = "USER_LOGIN"
        /\ activityLog[j].action = "PASSWORD_CHANGED"

\* C19: an issued token cannot be revoked before its expiry: authenticate
\* calls next() for a token issued by login at every instant before the
\* token's expires-at, and refuses it from then on, whatever changePassword,
\* resetPassword or deleteUser have done since the login.
C19_TokenNotRevoked ==
    (req.op = "authenticate" /\ presentedKept) =>
        (req.next <=> SecondsOf(req.t) < req.kept.token.exp)

\* authenticate accepted, in the token's last millisecond, a token issued
\* before the password was changed
C19_Witness ==
    /\ req.op = "authenticate"
    /\ presentedKept
    /\ req.next
    /\ req.t = DAY * 1000 - 1
    /\ passwordChangedSinceLogin
    /\ ~bcrypt_compare(Password1, findUserById(1).password)

\* the policy of the statement, with the minimum length of 8 that the
\* messages of the handlers name
meetsPolicy(password) ==
    /\ Len(password) >= 8
    /\ Range(password) \cap Upper # {}
    /\ Range(password) \cap Lower # {}
    /\ Range(password) \cap Digit # {}

\* C20: register accepts a password only if it has the minimum length, an
\* uppercase letter, a lowercase letter and a digit, and answers every other
\* password with a ValidationError (400).
C20_PasswordPolicy ==
    req.op \in RegisterOps =>
        /\ resp.status = 201 => meetsPolicy(req.body.password)
        /\ (~meetsPolicy(req.body.password) /\ req.body.email = ALICE /\ ~req.existed)
              => resp.status = 400

\* C21 as stated: a login for an email that has max failed logins in its
\* window is refused before login runs: no query of the user, no comparison
\* of the password, no write.
C21_BlockedEmailNotLookedUp ==
    (req.op = "loginLimited" /\ req.failsBefore >= max) =>
        /\ ~req.ran
        /\ ~req.compared
        /\ users = req.users
        /\ activityLog = req.activityLog

\* C21, amended: the limiter blocks by client address: login runs (queries
\* the user, compares the password) exactly when the limiter had counted
\* fewer than max requests of the address in its window; a blocked request
\* is answered 429 without any query, comparison or write, whatever the
\* email and the number of its failed logins.
C21_BlockedClientNotLookedUp ==
    req.op = "loginLimited" =>
        /\ req.ran <=> countedBefore < max
        /\ ~req.ran =>
              /\ resp = RATE_LIMITED
              /\ ~req.compared
              /\ users = req.users
              /\ activityLog = req.activityLog

C21_Witness ==
    /\ req.op = "loginLimited"
    /\ ~req.ran
    /\ req.failsBefore < max
    /\ req.cred = "ok"
    /\ findUserByEmail(req.email).id # 0

----------------------------------------------------------------------------
(* Failing logins for two emails from two client addresses.                *)

NextKeyed ==
    \/ \E ip \in IPs, email \in Emails : loginLimited(ip, email, Password2)
    \/ Advance({windowMs})

SpecKeyed == InitLimiter /\ [][NextKeyed]_vars

\* C22 as stated: the throttle is keyed by email: a login is blocked only for
\* the failed logins of its own email, never for those of another email.
C22_BlockedForOwnFailuresOnly ==
    (req.op = "loginLimited" /\ resp.status = 429) => req.failsBefore >= max

\* C22, amended: the throttle is keyed by the client address: a login request
\* changes the entry of its own address and no other entry, and it is blocked
\* exactly for the requests the limiter counted of its address, whatever
\* emails they named; failed logins for one email therefore block the logins
\* for every other email from the same address, and none from another address.
C22_KeyedByClientAddress ==
    req.op = "loginLimited" =>
        /\ \A k \in DOMAIN hits \ {req.ip} : hits[k] = req.hits[k]
        /\ hits[req.ip] = MemoryStore_increment(req.hits[req.ip], req.t)
        /\ resp.status = 429 <=> hits[req.ip].totalHits > max

C22_Witness ==
    /\ req.op = "loginLimited"
    /\ req.email = BOB
    /\ req.failsBefore = 0
    /\ resp.status = 429
    /\ emailFails[ALICE].count >= max
    /\ hits[CHOOSE k \in IPs : k # req.ip] = NoClient

----------------------------------------------------------------------------
(* Logins in flight: the limiter counts a request when it arrives, login   *)
(* answers it later, and other requests arrive in between.                 *)

MaxArrivals == 6
MaxInFlight == 2

\* loginLimiter on the arrival of POST /login: MemoryStore.increment has no
\* await between its read and its write, then 429 or next()
loginLimiter(ip, email, password) ==
    LET key     == keyGenerator(ip, email)
        client  == MemoryStore_increment(hits[key], now)
        limited == overLimit(client.totalHits)
    IN /\ Len(pending) < MaxArrivals
       /\ Cardinality({i \in DOMAIN pending : pending[i].state = "running"}) < MaxInFlight
       /\ hits' = [hits EXCEPT ![key] = client]
       /\ pending' = Append(pending,
             [op |-> "login", ip |-> ip, email |-> email, password |-> password,
              t |-> now, state |-> IF limited THEN "limited" ELSE "running"])
       /\ req' = [op |-> "loginLimiter", ip |-> ip, email |-> email, t |-> now,
                  before |-> hits[key]]
       /\ resp' = IF limited THEN RATE_LIMITED ELSE NEXT
       /\ UNCHANGED <<now, users, userRoles, activityLog, outbox, redeemed, bearer,
                      emailFails, wrongRun>>

\* login of part_002 answers the i-th request, which the limiter let pass
loginAnswers(i) ==
    LET reply == login_P2_reply(pending[i].email, pending[i].password, now)
        key   == keyGenerator(pending[i].ip, pending[i].email)
    IN /\ pending[i].state = "running"
       /\ resp' = reply
       /\ req' = [op |-> "loginAnswers", ip |-> pending[i].ip,
                  email |-> pending[i].email, t |-> now, before |-> hits[key]]
       /\ hits' = IF skipSuccessfulRequests /\ reply.status < 400
                  THEN [hits EXCEPT ![key] = MemoryStore_decrement(@)]
                  ELSE hits
       /\ pending' = [pending EXCEPT ![i].state =
                         IF reply.status < 400 THEN "succeeded" ELSE "failed"]
       /\ UNCHANGED <<now, users, userRoles, activityLog, outbox, redeemed, bearer,
                      emailFails, wrongRun>>

NextInFlight ==
    \/ \E password \in {Password1, Password2} : loginLimiter(<<"ip1">>, ALICE, password)
    \/ \E i \in DOMAIN pending : loginAnswers(i)
    \/ Advance({windowMs})

SpecInFlight == InitLimiter /\ [][NextInFlight]_vars

\* the requests of a client that arrived in the client's current window
arrivedInWindow(ip) ==
    {i \in DOMAIN pending :
        pending[i].ip = ip /\ pending[i].t >= hits[ip].resetTime - windowMs}

\* the logins for an email that were refused, by login or by the limiter, in
\* the current window of the client they came from
failedInWindow(email) ==
    {i \in DOMAIN pending :
        /\ pending[i].email = email
        /\ pending[i].state \in {"failed", "limited"}
        /\ i \in arrivedInWindow(pending[i].ip)}

\* C23 as stated: once every login is answered, the recorded count is the
\* number of failed logins for the identifier in the window, and it is never
\* negative.
C23_CountIsFailedLogins ==
    (\A i \in DOMAIN pending : pending[i].state # "running") =>
        /\ hits[<<"ip1">>].totalHits = Cardinality(failedInWindow(ALICE))
        /\ hits[<<"ip1">>].totalHits >= 0

\* C23, amended: no update is lost: in every interleaving of arrivals and
\* answers, the count recorded for a client address is exactly the number of
\* login requests, failed, successful, blocked or still in flight, that
\* arrived from the address in its current window; inside a window the count
\* never decreases, and it is never negative.
C23_CountIsArrivals ==
    /\ [](\A ip \in IPs :
            /\ hits[ip].totalHits = Cardinality(arrivedInWindow(ip))
            /\ hits[ip].totalHits >= 0)
    /\ [][\A ip \in IPs :
            hits'[ip].resetTime = hits[ip].resetTime
                => hits'[ip].totalHits >= hits[ip].totalHits]_vars

\* two logins were in flight together and the count holds both, with the
\* ones answered before
C23_Witness ==
    /\ Cardinality({i \in DOMAIN pending : pending[i].state = "running"}) = 2
    /\ Cardinality({i \in DOMAIN pending : pending[i].state = "failed"}) >= 2
    /\ hits[<<"ip1">>].totalHits >= 4
    /\ req.op = "loginLimiter"

\* the body names no role
suppliesNoRoles(body) ==
    IF "roleIds" \in DOMAIN body
    THEN ~body.roleIds.given \/ Len(body.roleIds.list) = 0
    ELSE ~body.roles.given \/ Len(body.roles.list) = 0

\* the id of the seeded role "User"
baselineRoleId == (CHOOSE r \in roleTable : r.name = "User").id

\* C24: a registration that supplies no roles, and is well formed otherwise,
\* succeeds, and the created user gets exactly one role assignment, to the
\* role "User".
C24_DefaultRoleIsUser ==
    (/\ req.op \in {"register", "register_P3", "register_Z"}
     /\ suppliesNoRoles(req.body)
     /\ wellFormed(req.body)
     /\ ~req.existed
     /\ resp.status < 500) =>
        /\ resp.status = 201
        /\ userRoles \ req.userRoles = {<<Cardinality(req.users) + 1, baselineRoleId>>}

\* the body asks for a role of the management set
asksManagement(body) ==
    IF "roleIds" \in DOMAIN body
    THEN \E r \in rolesById(body.roleIds.list) : r.name \in MANAGEMENT_ROLES
    ELSE \E r \in rolesByName(body.roles.list) : r.name \in MANAGEMENT_ROLES

\* the body names a department, and the Directory has it
departmentGiven(body) ==
    IF "departmentId" \in DOMAIN body
    THEN \E d \in departmentTable : d.id = body.departmentId
    ELSE \E d \in departmentTable : d.name = body.department

\* C25: a registration that asks for a role of the management set succeeds
\* only with a department that is supplied and exists; without one it fails
\* and creates no user.
C25_ManagementNeedsDepartment ==
    (req.op \in {"register", "register_P3"} /\ asksManagement(req.body)) =>
        /\ resp.status = 201 => departmentGiven(req.body)
        /\ ~departmentGiven(req.body) => (resp.status >= 400 /\ users = req.users)

\* the body names a role the Directory does not have
asksMissingRole(body) ==
    IF "roleIds" \in DOMAIN body
    THEN \E i \in 1..Len(body.roleIds.list) :
            ~\E r \in roleTable : r.id = body.roleIds.list[i]
    ELSE \E i \in 1..Len(body.roles.list) :
            ~\E r \in roleTable : r.name = body.roles.list[i]

\* C26: a registration, well formed otherwise, that names a role the
\* Directory does not have is answered NotFoundError (404) and creates no
\* user and no role assignment, also when it names existing roles as well.
C26_MissingRoleIs404 ==
    (/\ req.op \in {"register", "register_P3"}
     /\ asksMissingRole(req.body)
     /\ wellFormed(req.body)
     /\ ~req.existed) =>
        /\ resp.status = 404
        /\ users = req.users
        /\ userRoles = req.userRoles

----------------------------------------------------------------------------
(* Requests with valid and with invalid input, on a Directory that holds   *)
(* one user.                                                                *)

MaxInputLog == 4

BodiesInput ==
    {Body(BOB, Password1, "", Roles(<<"Operator">>)),
     Body(ALICE, Password1, "", Roles(<<"Operator">>)),
     Body(BOB, Weak, "", Roles(<<"Operator">>)),
     Body(NOT_MAIL, Password1, "", Roles(<<"Operator">>)),
     Body(BOB, Password1, "", NoRoles)}

BodiesZInput ==
    {BodyZ(Al, BOB, Password1, NoRoles),
     BodyZ(<<"A">>, BOB, Password1, NoRoles),
     BodyZ(Al, BOB, Password1, Roles(<<3, 3>>))}

\* change-password is served for the user whose token authenticate accepted:
\* the one user of InitRevoke, who holds the token of the registration
NextInput ==
    \/ \E body \in BodiesInput : register(body)
    \/ \E body \in BodiesZInput : register_Z(body)
    \/ /\ requestPasswordReset(ALICE)
       /\ Len(activityLog') <= MaxInputLog
    \/ \E token \in {m.token : m \in outbox} \cup {randomBytes, NoResetToken},
          newPassword \in {Password2, Weak} :
          /\ resetPassword(ALICE, token, newPassword)
          /\ Len(activityLog') <= MaxInputLog
    \/ \E currentPassword \in {Password1, <<>>}, newPassword \in {Password2, Weak} :
          /\ changePassword(1, currentPassword, newPassword)
          /\ Len(activityLog') <= MaxInputLog
    \/ Advance({RESET_TOKEN_EXPIRES + 1})

SpecInput == InitRevoke /\ [][NextInput]_vars

\* the request was refused with a status of the 4xx class
rejected ==
    /\ req.op \in {"register", "register_Z", "resetPassword", "changePassword"}
    /\ resp.status >= 400
    /\ resp.status < 500

\* C27: a register, resetPassword or changePassword that is rejected for its
\* input leaves the Directory as it was: the users with their password
\* digests, the role assignments, and the activity log with the reset
\* tickets are the same after the call as before.
C27_RejectedChangesNothing ==
    rejected =>
        /\ users = req.users
        /\ userRoles = req.userRoles
        /\ activityLog = req.activityLog

\* a reset with a weak new password was rejected while a ticket it could
\* have redeemed was in the log
C27_Witness ==
    /\ rejected
    /\ req.op = "resetPassword"
    /\ resp.message = WEAK_MESSAGE
    /\ redeemable(req.email, req.token)

----------------------------------------------------------------------------
(* Registrations that overlap.  register awaits prisma.user.findUnique     *)
(* (auth.controller.ts line 59) and later prisma.$transaction (line 115):   *)
(* other requests are served between the two.                               *)

MaxRegistrations == 3

BodiesRace ==
    {Body(ALICE, Password1, "", Roles(<<"Operator">>)),
     Body(ALICE_UC, Password1, "", Roles(<<"Operator">>)),
     Body(BOB, Password1, "", Roles(<<"Operator">>))}

User_email_keyDropped(email, id) == FALSE

\* the unique index User_email_key (schema.prisma line 31) refuses this email
\* for the row id: another row holds it
User_email_key(email, id) ==
    \E u \in users : u.id # id /\ Fold(u.email) = Fold(email)

\* register, lines 24-113: the validation and the existence check
registerChecks(body) ==
    LET reply == register_reply(body, now)
    IN /\ Len(pending) < MaxRegistrations
       /\ req' = [op |-> "registerChecks", email |-> body.email, t |-> now,
                  body |-> body, users |-> users, userRoles |-> userRoles]
       /\ resp' = IF reply.status = 201 THEN NEXT ELSE reply
       /\ pending' = Append(pending,
             [op |-> "register", body |-> body, t |-> now, id |-> 0,
              state |-> IF reply.status = 201 THEN "checked" ELSE "refused"])
       /\ UNCHANGED <<now, users, userRoles, activityLog, hits, outbox, redeemed,
                      bearer, emailFails, wrongRun>>

\* register, lines 115-189: the transaction and the answer of the i-th request
registerCommits(i) ==
    LET body  == pending[i].body
        reply == [status |-> 201, message |-> "",
                  token |-> jwt_sign([id |-> nextUserId, email |-> body.email],
                                     JWT_SECRET, DAY, now)]
        lost  == User_email_key(body.email, 0)
    IN /\ pending[i].state = "checked"
       /\ req' = [op |-> "registerCommits", email |-> body.email, t |-> now,
                  body |-> body, lost |-> lost, users |-> users,
                  userRoles |-> userRoles]
       /\ \/ /\ ~lost
             /\ Len(activityLog) < MaxLog
             /\ \E salt \in Salts :
                   users' = users \cup
                       {UserRow(nextUserId, body, bcrypt_hash(body.password, salt),
                                departmentIdOf(body.department))}
             /\ userRoles' = userRoles \cup
                   {<<nextUserId, r.id>> : r \in rolesByName(body.roles.list)}
             /\ activityLog' = Append(activityLog,
                   LogEntry(nextUserId, "USER_CREATED", now,
                            [departmentId |-> departmentIdOf(body.department),
                             roles |-> rolesByName(body.roles.list)]))
             /\ resp' = Sends(reply, formattedUser(createdUser(nextUserId, users'), userRoles'))
             /\ pending' = [pending EXCEPT ![i].state = "created", ![i].id = nextUserId]
          \* tx.user.create throws P2002, or another write throws: rolled back
          \/ /\ UNCHANGED <<users, userRoles, activityLog>>
             /\ resp' = Reply(500, "Failed to register user")
             /\ pending' = [pending EXCEPT ![i].state = "failed"]
       /\ UNCHANGED <<now, hits, outbox, redeemed, bearer, emailFails, wrongRun>>

\* updateUser, part_004 lines 40-62, behind authenticate; the body gives an
\* email and no names (undefined leaves a column as it is), and
\* departmentId || null
updateUser(id, email) ==
    LET user == findUserById(id)
    IN /\ users # {}
       /\ req' = [op |-> "updateUser", id |-> id, email |-> email, t |-> now,
                  users |-> users, userRoles |-> userRoles]
       /\ IF user.id = 0 \/ User_email_key(email, id)
          THEN /\ resp' = Reply(500, "Failed to update user")
               /\ UNCHANGED users
          ELSE /\ users' = (users \ {user}) \cup
                      {[user EXCEPT !.email = email, !.departmentId = NoDepartment]}
               /\ resp' = [status |-> 200, message |-> "", token |-> NoToken,
                           user |-> includedUser(findUserById(id)')]
       /\ UNCHANGED <<now, userRoles, activityLog, hits, outbox, redeemed, bearer,
                      emailFails, wrongRun, pending>>

NextRace ==
    \/ \E body \in BodiesRace : registerChecks(body)
    \/ \E i \in DOMAIN pending : registerCommits(i)
    \/ \E id \in UserIds, email \in {ALICE, BOB} : updateUser(id, email)

SpecRace == Init /\ [][NextRace]_vars

\* C28: whatever the interleaving of registrations and user updates, no two
\* users have the same email, and a registration that passed the existence
\* check and then found its email taken leaves the users and the role
\* assignments as they were.
C28_EmailIsUnique ==
    /\ \A u, v \in users : u.id # v.id => u.email # v.email
    /\ (req.op = "registerCommits" /\ req.lost) =>
           /\ users = req.users
           /\ userRoles = req.userRoles

\* two registrations of one email both passed the existence check; one
\* committed and the other has just been answered
C28_Witness ==
    /\ req.op = "registerCommits"
    /\ req.lost
    /\ \E i, j \in DOMAIN pending :
          /\ pending[i].state = "created"
          /\ pending[j].state = "failed"
          /\ pending[i].body.email = pending[j].body.email
          /\ pending[i].t <= pending[j].t
          /\ \E u \in users : u.id = pending[i].id /\ u.email = req.email

----------------------------------------------------------------------------
(* The seed script (src/src/seed.ts) run against a Directory in use: it    *)
(* deletes every role assignment, audit row and user, then creates its own  *)
(* users, whose ids the AUTO_INCREMENT counter of the table continues.      *)

MaxSeedId == 3

SEED_ADMIN == <<"d", "@", "e", ".", "c", "o">>

lastUserId == IF users = {} THEN 0 ELSE CHOOSE n \in {u.id : u \in users} :
                                          \A u \in users : u.id <= n

\* main, seed.ts lines 4-556, for the tables of users, role assignments and
\* audit rows; of the users it creates, the administrator
seed(lastId) ==
    /\ lastId < MaxSeedId
    /\ \E salt \in Salts :
          users' = {UserRow(lastId + 1,
                            Body(SEED_ADMIN, Password1, "Executive Management",
                                 Roles(<<"Admin">>)),
                            bcrypt_hash(Password1, salt), 1)}
    /\ userRoles' = {<<lastId + 1, 1>>}
    /\ activityLog' = <<>>
    /\ req' = [op |-> "seed", t |-> now, users |-> users, userRoles |-> userRoles]
    /\ resp' = Reply(0, "Seed data creation completed successfully!")
    /\ UNCHANGED <<now, hits, outbox, redeemed, bearer, emailFails, wrongRun, pending>>

\* the header of a caller who sends the token kept, or none
HeadersKept == {NoHeader, Header("Bearer", bearer.token)}

NextSeed ==
    \/ \E email \in {ALICE, SEED_ADMIN} : login(email, Password1)
    \/ \E email \in {ALICE, SEED_ADMIN} : login_Z(email, Password1)
    \/ Keep
    \/ seed(lastUserId)
    \/ \E header \in HeadersKept : authenticate(header)
    \/ \E header \in HeadersKept : authenticateToken(header)

SpecSeed == InitReset /\ [][NextSeed]_vars

\* the user id the guard that served the request reads from the token
principalOf ==
    IF req.op = "authenticate" THEN req.verdict.payload.id
    ELSE req.verdict.payload.userId

\* the guard served a verified token that names a user
namesPrincipal ==
    \/ req.op = "authenticate" /\ has(req.verdict, "id")
    \/ req.op = "authenticateToken" /\ has(req.verdict, "userId")

\* C29: a guard that lets a request pass attaches the roles the user has in
\* the Directory at that moment, and a verified token whose user is no longer
\* in the Directory is answered 401 without next().
C29_GuardReadsDirectory ==
    namesPrincipal =>
        /\ req.next =>
              /\ req.user.id = principalOf
              /\ req.user.roles = roleNamesOf(principalOf)
        /\ findUserById(principalOf).id = 0 =>
              /\ ~req.next
              /\ resp.status = 401

----------------------------------------------------------------------------
(* Logins around a password reset, with two users in the Directory who     *)
(* registered with the same password.                                       *)

MaxRoundTripLog == 6

InitRoundTrip ==
    /\ now = 0
    /\ users = {UserRow(1, Body(ALICE, Password1, "", Roles(<<"Operator">>)),
                        bcrypt_hash(Password1, 1), NoDepartment),
                UserRow(2, Body(BOB, Password1, "", Roles(<<"Operator">>)),
                        bcrypt_hash(Password1, 2), NoDepartment)}
    /\ userRoles = {<<1, 3>>, <<2, 3>>}
    /\ activityLog = <<LogEntry(1, "USER_CREATED", 0,
                                [departmentId |-> NoDepartment,
                                 roles |-> rolesByName(<<"Operator">>)]),
                       LogEntry(2, "USER_CREATED", 0,
                                [departmentId |-> NoDepartment,
                                 roles |-> rolesByName(<<"Operator">>)])>>
    /\ hits = [k \in IPs \cup Emails |-> NoClient]
    /\ outbox = {}
    /\ redeemed = {}
    /\ bearer = NotKept
    /\ req = [op |-> "register", email |-> BOB, t |-> 0,
              body |-> Body(BOB, Password1, "", Roles(<<"Operator">>)),
              existed |-> FALSE, users |-> {}, userRoles |-> {}]
    /\ resp = [status |-> 201, message |-> "",
               token |-> jwt_sign([id |-> 2, email |-> BOB], JWT_SECRET, DAY, 0),
               user |-> formattedUser(findUserById(2), userRoles)]
    /\ emailFails = [e \in Emails |-> NoFails]
    /\ wrongRun = [e \in Emails |-> NoRun]
    /\ pending = <<>>

NextRoundTrip ==
    \/ \E email \in Emails :
          /\ requestPasswordReset(email)
          /\ Len(activityLog') < MaxRoundTripLog
    \/ \E email \in Emails, token \in {m.token : m \in outbox},
          newPassword \in {Password1, Password2} :
          resetPassword(email, token, newPassword)
    \/ \E email \in Emails, password \in {Password1, Password2} :
          loginWithin(email, password, MaxRoundTripLog)

SpecRoundTrip == InitRoundTrip /\ [][NextRoundTrip]_vars

\* the reset just answered succeeded
resetSucceeded == req.op = "resetPassword" /\ resp.status = 200

\* the password digest of the user of this email before the reset just answered
digestBefore(email) ==
    (CHOOSE u \in req.users : Fold(u.email) = Fold(email)).password

\* a successful reset changed no digest but that of its own user
othersKept ==
    resetSucceeded =>
        \A u \in req.users : Fold(u.email) # Fold(req.email) => u \in users

\* the login that follows the reset is a login of the same email
loginFollows == resetSucceeded /\ req'.op = "login" /\ req'.email = req.email

====
